---------------------------- MODULE Spec2Model ----------------------------
(***************************************************************************)
(* A model of the commit-ai command line tool (cai): the default command   *)
(* (generate a commit message, optionally stage and commit), the review    *)
(* subcommand, the diff-to-context pipeline getSmartDiff and the parsing   *)
(* of the language model's reply.                                          *)
(*                                                                         *)
(* Text is modelled as sequences of one-character strings, so startsWith,  *)
(* slice, split and the hunk-header pattern are computed.  The reply of    *)
(* the language model is a sequence of JSON tokens and JSONParse is a      *)
(* recursive-descent parser over it.                                       *)
(***************************************************************************)
EXTENDS Integers, Sequences, FiniteSets, TLC

(***************************************************************************)
(* Bounds of the model.                                                    *)
(***************************************************************************)
\* longest diff, in lines, drawn from LineAlphabet in the parser specification
MaxDiffLines == 4

(***************************************************************************)
(* Strings.                                                                *)
(***************************************************************************)
NL == "\n"

StartsWith(line, prefix) ==
    /\ Len(line) >= Len(prefix)
    /\ SubSeq(line, 1, Len(prefix)) = prefix

\* String.prototype.slice(n) for 0 <= n
Slice(line, n) == SubSeq(line, n + 1, Len(line))

RECURSIVE SplitFrom(_, _, _)
SplitFrom(text, i, cur) ==
    IF i > Len(text) THEN <<cur>>
    ELSE IF text[i] = NL THEN <<cur>> \o SplitFrom(text, i + 1, <<>>)
    ELSE SplitFrom(text, i + 1, Append(cur, text[i]))

\* text.split('\n')
Split(text) == SplitFrom(text, 1, <<>>)

RECURSIVE JoinLines(_)
\* the text git prints for a sequence of lines: every line ends with a newline
JoinLines(lines) ==
    IF lines = <<>> THEN <<>>
    ELSE Head(lines) \o <<NL>> \o JoinLines(Tail(lines))

Digits == <<"0", "1", "2", "3", "4", "5", "6", "7", "8", "9">>

IsDigit(c) == \E d \in 1..10 : Digits[d] = c

DigitValue(c) == (CHOOSE d \in 1..10 : Digits[d] = c) - 1

RECURSIVE ParseIntFrom(_, _)
ParseIntFrom(ds, acc) ==
    IF ds = <<>> THEN acc
    ELSE ParseIntFrom(Tail(ds), acc * 10 + DigitValue(Head(ds)))

\* parseInt(ds, 10) for a non-empty run of decimal digits
ParseInt(ds) == ParseIntFrom(ds, 0)

\* the index of the last digit of the run of digits that starts at i (i - 1 if none)
DigitsEnd(s, i) ==
    IF i > Len(s) \/ ~IsDigit(s[i]) THEN i - 1
    ELSE CHOOSE j \in i..Len(s) :
            /\ \A k \in i..j : IsDigit(s[k])
            /\ (j = Len(s) \/ ~IsDigit(s[j + 1]))

HunkPrefix == <<"@", "@", " ", "-">>

\* where the pattern  @@ -\d+(?:,\d+)? \+(\d+)  matches when tried at position p:
\* [ok, from, to], the span of the captured digits
HunkMatchAt(s, p) ==
    LET none == [ok |-> FALSE, from |-> 0, to |-> 0]
        e1   == DigitsEnd(s, p + 4)
        \* the optional group is taken when a comma and digits follow
        e2   == IF e1 + 1 <= Len(s) /\ s[e1 + 1] = "," /\ DigitsEnd(s, e1 + 2) >= e1 + 2
                THEN DigitsEnd(s, e1 + 2) ELSE e1
        e3   == DigitsEnd(s, e2 + 3)
    IN  IF ~(p + 3 <= Len(s) /\ SubSeq(s, p, p + 3) = HunkPrefix) THEN none
        ELSE IF e1 < p + 4 THEN none
        ELSE IF ~(e2 + 2 <= Len(s) /\ s[e2 + 1] = " " /\ s[e2 + 2] = "+") THEN none
        ELSE IF e3 < e2 + 3 THEN none
        ELSE [ok |-> TRUE, from |-> e2 + 3, to |-> e3]

\* line.match(/@@ -\d+(?:,\d+)? \+(\d+)/): the leftmost match, [ok, start]
HunkMatch(line) ==
    IF \E p \in 1..Len(line) : HunkMatchAt(line, p).ok
    THEN LET p == CHOOSE q \in 1..Len(line) :
                     /\ HunkMatchAt(line, q).ok
                     /\ \A r \in 1..(q - 1) : ~HunkMatchAt(line, r).ok
             m == HunkMatchAt(line, p)
         IN  [ok |-> TRUE, start |-> ParseInt(SubSeq(line, m.from, m.to))]
    ELSE [ok |-> FALSE, start |-> 0]

(***************************************************************************)
(* Map<string, V> with JavaScript's insertion order: a sequence of         *)
(* [key, val] entries without repeated keys.                               *)
(***************************************************************************)
MapHas(m, k) == \E i \in 1..Len(m) : m[i].key = k

MapGet(m, k) == m[CHOOSE i \in 1..Len(m) : m[i].key = k].val

MapKeys(m) == [i \in 1..Len(m) |-> m[i].key]

\* MapSet that deletes a present key and inserts it again at the end
MapSetReinserting(m, k, v) ==
    Append(SelectSeq(m, LAMBDA e : e.key # k), [key |-> k, val |-> v])

\* Map.prototype.set: a key that is present keeps its position
MapSet(m, k, v) ==
    IF MapHas(m, k)
    THEN [i \in 1..Len(m) |-> IF m[i].key = k THEN [key |-> k, val |-> v] ELSE m[i]]
    ELSE Append(m, [key |-> k, val |-> v])


(***************************************************************************)
(* getSmartDiff: the diff parsing loop.                                    *)
(***************************************************************************)
Plus3 == <<"+", "+", "+">>

\* ParseStart with the counter at 1, the number of a file's first line
ParseStartCountingFromOne == [currentFile |-> <<>>, currentLine |-> 1, changedFiles |-> <<>>]

\* the parser's locals before the first line
ParseStart == [currentFile |-> <<>>, currentLine |-> 0, changedFiles |-> <<>>]

\* changedFiles.get(currentFile)?.add(currentLine)
AddChangedLine(m, file, n) ==
    IF MapHas(m, file) THEN MapSet(m, file, MapGet(m, file) \cup {n}) ELSE m

\* ParseStep with the counter advanced on deleted lines as well
ParseStepCountingDeletions(p, line) ==
    IF StartsWith(line, Plus3)
    THEN [p EXCEPT !.currentFile = Slice(line, 6),
                   !.changedFiles = MapSet(p.changedFiles, Slice(line, 6), {})]
    ELSE IF StartsWith(line, <<"@", "@">>)
    THEN IF HunkMatch(line).ok
         THEN [p EXCEPT !.currentLine = HunkMatch(line).start]
         ELSE p
    ELSE IF StartsWith(line, <<"+">>) /\ p.currentFile # <<>>
    THEN [p EXCEPT !.changedFiles = AddChangedLine(p.changedFiles, p.currentFile, p.currentLine),
                   !.currentLine = p.currentLine + 1]
    ELSE [p EXCEPT !.currentLine = p.currentLine + 1]

\* ParseStep with a file registered at its first added line, not at its header
ParseStepRegisteringOnAdd(p, line) ==
    IF StartsWith(line, Plus3)
    THEN [p EXCEPT !.currentFile = Slice(line, 6)]
    ELSE IF StartsWith(line, <<"@", "@">>)
    THEN IF HunkMatch(line).ok
         THEN [p EXCEPT !.currentLine = HunkMatch(line).start]
         ELSE p
    ELSE IF StartsWith(line, <<"+">>) /\ p.currentFile # <<>>
    THEN [p EXCEPT !.changedFiles =
                       IF MapHas(p.changedFiles, p.currentFile)
                       THEN AddChangedLine(p.changedFiles, p.currentFile, p.currentLine)
                       ELSE MapSet(p.changedFiles, p.currentFile, {p.currentLine}),
                   !.currentLine = p.currentLine + 1]
    ELSE IF ~StartsWith(line, <<"-">>)
    THEN [p EXCEPT !.currentLine = p.currentLine + 1]
    ELSE p

\* ParseStep with the counter reset to 1 at every hunk header
ParseStepResettingToOne(p, line) ==
    IF StartsWith(line, Plus3)
    THEN [p EXCEPT !.currentFile = Slice(line, 6),
                   !.changedFiles = MapSet(p.changedFiles, Slice(line, 6), {})]
    ELSE IF StartsWith(line, <<"@", "@">>)
    THEN IF HunkMatch(line).ok
         THEN [p EXCEPT !.currentLine = 1]
         ELSE p
    ELSE IF StartsWith(line, <<"+">>) /\ p.currentFile # <<>>
    THEN [p EXCEPT !.changedFiles = AddChangedLine(p.changedFiles, p.currentFile, p.currentLine),
                   !.currentLine = p.currentLine + 1]
    ELSE IF ~StartsWith(line, <<"-">>)
    THEN [p EXCEPT !.currentLine = p.currentLine + 1]
    ELSE p

\* one iteration of  for (const line of diffLines)
ParseStep(p, line) ==
    IF StartsWith(line, Plus3)
    THEN [p EXCEPT !.currentFile = Slice(line, 6),
                   !.changedFiles = MapSet(p.changedFiles, Slice(line, 6), {})]
    ELSE IF StartsWith(line, <<"@", "@">>)
    THEN IF HunkMatch(line).ok
         THEN [p EXCEPT !.currentLine = HunkMatch(line).start]
         ELSE p
    ELSE IF StartsWith(line, <<"+">>) /\ p.currentFile # <<>>
    THEN [p EXCEPT !.changedFiles = AddChangedLine(p.changedFiles, p.currentFile, p.currentLine),
                   !.currentLine = p.currentLine + 1]
    ELSE IF ~StartsWith(line, <<"-">>)
    THEN [p EXCEPT !.currentLine = p.currentLine + 1]
    ELSE p

(***************************************************************************)
(* getSmartFileContent.  A file's content is the sequence of its lines     *)
(* (what split('\n') gives), each with its text and its width in           *)
(* characters, so that content.length is computed and a file of 50 KiB     *)
(* needs no 51200 characters in the model.                                 *)
(***************************************************************************)
\* MAX_FILE_SIZE read as 50 kB, in thousands
MAX_FILE_SIZE_Decimal == 50 * 1000

MAX_FILE_SIZE == 50 * 1024

MAX_LINES_CONTEXT == 100

\* lines taken before and after a changed line
ContextWindow == 25

RECURSIVE SumWidths(_)
\* the characters of the lines, summed by halves
SumWidths(lines) ==
    IF lines = <<>> THEN 0
    ELSE IF Len(lines) = 1 THEN lines[1].width
    ELSE LET mid == Len(lines) \div 2
         IN  SumWidths(SubSeq(lines, 1, mid)) + SumWidths(SubSeq(lines, mid + 1, Len(lines)))

\* content.length: the lines and the newlines between them
ContentLength(lines) == SumWidths(lines) + Len(lines) - 1

Max(a, b) == IF a >= b THEN a ELSE b

Min(a, b) == IF a <= b THEN a ELSE b

\* the 0-based line indices added for one changed line
LineWindow(line, nLines) ==
    { i \in Max(0, line - ContextWindow) .. (Min(nLines, line + ContextWindow) - 1) : TRUE }

RelevantLines(diffLineSet, nLines) ==
    UNION { LineWindow(line, nLines) : line \in diffLineSet }

\* Array.from(set).sort((a, b) => a - b) of line indices (none is negative):
\* the numbers up to the greatest, those of the set kept
SortAscending(S) ==
    IF S = {} THEN <<>>
    ELSE LET greatest == CHOOSE x \in S : \A y \in S : y <= x
         IN  SelectSeq([i \in 1..(greatest + 1) |-> i - 1], LAMBDA x : x \in S)

SkipMarker == [text |-> "// ... (skipped lines) ...", width |-> 26, marker |-> TRUE]

\* EmitLine with a marker after every line but the first, adjacent or not
EmitLineAlwaysMarking(lines, line, lastLine) ==
    (IF lastLine # -1 THEN <<SkipMarker>> ELSE <<>>)
        \o << [text |-> lines[line + 1].text, width |-> lines[line + 1].width,
               marker |-> FALSE] >>

\* one iteration of the loop that builds the partial content: the marker (itself
\* between two newlines) if the line does not follow lastLine, then the line
EmitLine(lines, line, lastLine) ==
    (IF lastLine # -1 /\ line > lastLine + 1 THEN <<SkipMarker>> ELSE <<>>)
        \o << [text |-> lines[line + 1].text, width |-> lines[line + 1].width,
               marker |-> FALSE] >>

RECURSIVE BuildExcerpt(_, _, _)
\* for (const line of sortedLines) { ... }
BuildExcerpt(lines, sortedLines, lastLine) ==
    IF sortedLines = <<>> THEN <<>>
    ELSE EmitLine(lines, Head(sortedLines), lastLine)
             \o BuildExcerpt(lines, Tail(sortedLines), Head(sortedLines))

\* what git.show(['HEAD:<path>']) gives: a failure, or the committed content
ShowFails == [ok |-> FALSE, lines |-> <<>>]

NullContent == [null |-> TRUE, full |-> FALSE, pieces |-> <<>>]

\* getFileContent followed by the sampling of getSmartFileContent
getSmartFileContent(show, diffLineSet) ==
    IF ~show.ok THEN NullContent
    ELSE IF ContentLength(show.lines) = 0 THEN NullContent
    ELSE IF ContentLength(show.lines) < MAX_FILE_SIZE
    THEN [null |-> FALSE, full |-> TRUE, pieces |-> show.lines]
    ELSE LET relevant == RelevantLines(diffLineSet, Len(show.lines))
         IN  IF Cardinality(relevant) > MAX_LINES_CONTEXT THEN NullContent
             ELSE [null |-> FALSE, full |-> FALSE,
                   pieces |-> BuildExcerpt(show.lines, SortAscending(relevant), -1)]

\* the length of the string getSmartFileContent returned
SampleLength(c) ==
    IF c.null THEN 0
    ELSE IF c.full THEN ContentLength(c.pieces)
    ELSE LET n == Len(c.pieces)
             markers == Cardinality({ i \in 1..n : c.pieces[i].marker })
         IN  SumWidths(c.pieces) + n + markers

\* if (content): null and the empty string are falsy
SampleTruthy(c) == ~c.null /\ SampleLength(c) > 0

(***************************************************************************)
(* JSON.  A reply text is a sequence of tokens [k, v]: punctuation "p",    *)
(* a string literal "s", one of the literals true, false, null "lit", or   *)
(* a bare word "w" (prose, a code fence), which no JSON text contains.     *)
(* A JavaScript value is a record tagged by t.                             *)
(***************************************************************************)
JUndefined == [t |-> "undefined"]

JNull == [t |-> "null"]

JBool(b) == [t |-> "bool", b |-> b]

JStr(s) == [t |-> "str", s |-> s]

JArr(items) == [t |-> "arr", items |-> items]

\* an object: its keys in source order and their values
JObj(keys, vals) == [t |-> "obj", keys |-> keys, vals |-> vals]

P(c) == [k |-> "p", v |-> c]

StrTok(s) == [k |-> "s", v |-> s]

Lit(w) == [k |-> "lit", v |-> w]

Word(w) == [k |-> "w", v |-> w]

ParseFail == [ok |-> FALSE, v |-> JUndefined, next |-> 0]

RECURSIVE ParseValue(_, _), ParseMembers(_, _, _, _), ParseElements(_, _, _)
\* the value that starts at token i: [ok, v, next]
ParseValue(toks, i) ==
    IF i > Len(toks) THEN ParseFail
    ELSE LET tok == toks[i] IN
         IF tok.k = "s" THEN [ok |-> TRUE, v |-> JStr(tok.v), next |-> i + 1]
         ELSE IF tok.k = "lit" /\ tok.v = "true" THEN [ok |-> TRUE, v |-> JBool(TRUE), next |-> i + 1]
         ELSE IF tok.k = "lit" /\ tok.v = "false" THEN [ok |-> TRUE, v |-> JBool(FALSE), next |-> i + 1]
         ELSE IF tok.k = "lit" /\ tok.v = "null" THEN [ok |-> TRUE, v |-> JNull, next |-> i + 1]
         ELSE IF tok = P("{")
         THEN IF i + 1 <= Len(toks) /\ toks[i + 1] = P("}")
              THEN [ok |-> TRUE, v |-> JObj(<<>>, <<>>), next |-> i + 2]
              ELSE ParseMembers(toks, i + 1, <<>>, <<>>)
         ELSE IF tok = P("[")
         THEN IF i + 1 <= Len(toks) /\ toks[i + 1] = P("]")
              THEN [ok |-> TRUE, v |-> JArr(<<>>), next |-> i + 2]
              ELSE ParseElements(toks, i + 1, <<>>)
         ELSE ParseFail

\* the members of an object from token i on:  "key" : value  ( , ... )* }
ParseMembers(toks, i, keys, vals) ==
    IF ~(i + 1 <= Len(toks) /\ toks[i].k = "s" /\ toks[i + 1] = P(":")) THEN ParseFail
    ELSE LET r == ParseValue(toks, i + 2) IN
         IF ~r.ok \/ r.next > Len(toks) THEN ParseFail
         ELSE IF toks[r.next] = P(",")
         THEN ParseMembers(toks, r.next + 1, Append(keys, toks[i].v), Append(vals, r.v))
         ELSE IF toks[r.next] = P("}")
         THEN [ok |-> TRUE, v |-> JObj(Append(keys, toks[i].v), Append(vals, r.v)),
               next |-> r.next + 1]
         ELSE ParseFail

\* the elements of an array from token i on:  value ( , value )* ]
ParseElements(toks, i, items) ==
    LET r == ParseValue(toks, i) IN
    IF ~r.ok \/ r.next > Len(toks) THEN ParseFail
    ELSE IF toks[r.next] = P(",") THEN ParseElements(toks, r.next + 1, Append(items, r.v))
    ELSE IF toks[r.next] = P("]")
    THEN [ok |-> TRUE, v |-> JArr(Append(items, r.v)), next |-> r.next + 1]
    ELSE ParseFail

\* JSON.parse(text): [ok, v]; ok is FALSE where JSON.parse throws a SyntaxError
JSONParse(text) ==
    LET r == ParseValue(text, 1)
    IN  IF r.ok /\ r.next = Len(text) + 1 THEN [ok |-> TRUE, v |-> r.v]
        ELSE [ok |-> FALSE, v |-> JUndefined]

RECURSIVE Stringify(_), StringifyMembers(_, _, _), StringifyItems(_, _)
\* JSON.stringify(v), the text a well-behaved reply is made of
Stringify(v) ==
    IF v.t = "str" THEN <<StrTok(v.s)>>
    ELSE IF v.t = "bool" THEN <<Lit(IF v.b THEN "true" ELSE "false")>>
    ELSE IF v.t = "null" THEN <<Lit("null")>>
    ELSE IF v.t = "arr" THEN <<P("[")>> \o StringifyItems(v.items, 1) \o <<P("]")>>
    ELSE <<P("{")>> \o StringifyMembers(v.keys, v.vals, 1) \o <<P("}")>>

StringifyMembers(keys, vals, i) ==
    IF i > Len(keys) THEN <<>>
    ELSE (IF i > 1 THEN <<P(",")>> ELSE <<>>)
         \o <<StrTok(keys[i]), P(":")>> \o Stringify(vals[i])
         \o StringifyMembers(keys, vals, i + 1)

StringifyItems(items, i) ==
    IF i > Len(items) THEN <<>>
    ELSE (IF i > 1 THEN <<P(",")>> ELSE <<>>) \o Stringify(items[i])
         \o StringifyItems(items, i + 1)

\* the conversion of a value to a boolean in  if (v)  and  v && w
Truthy(v) ==
    IF v.t = "bool" THEN v.b
    ELSE IF v.t = "str" THEN v.s # ""
    ELSE v.t \in {"arr", "obj"}

\* the property access v.key: [throws, v]; it throws a TypeError on null and
\* undefined, and gives undefined where the property is missing
GetProp(v, key) ==
    IF v.t \in {"null", "undefined"} THEN [throws |-> TRUE, v |-> JUndefined]
    ELSE IF v.t = "obj" /\ \E i \in 1..Len(v.keys) : v.keys[i] = key
    THEN \* a repeated key: the last one wins
         LET i == CHOOSE j \in 1..Len(v.keys) :
                      /\ v.keys[j] = key
                      /\ \A m \in (j + 1)..Len(v.keys) : v.keys[m] # key
         IN  [throws |-> FALSE, v |-> v.vals[i]]
    ELSE [throws |-> FALSE, v |-> JUndefined]

(***************************************************************************)
(* parseAIResponse (commit-message generator) and the reply handling of    *)
(* reviewCode (review subcommand).                                         *)
(***************************************************************************)
\* response.choices[0].message.content || ''
ContentOrEmpty(reply) == IF reply.null THEN <<>> ELSE reply.text

\* handleReviewFeedback(feedback) and displayReviewFeedback(feedback) throw a
\* TypeError: at feedback.length on null and undefined, at feedback.forEach on
\* anything but an array (unless its length is 0), at item.file on a null item
FeedbackThrows(feedback) ==
    IF feedback.t \in {"null", "undefined"} THEN TRUE
    ELSE IF feedback.t = "arr"
    THEN \E i \in 1..Len(feedback.items) : GetProp(feedback.items[i], "file").throws
    ELSE IF feedback.t = "str" THEN feedback.s # ""
    ELSE TRUE

\* the feedback items are printed: a non-empty array
FeedbackShown(feedback) == feedback.t = "arr" /\ feedback.items # <<>>

RawMessage(text) == [fromRaw |-> TRUE, text |-> text, val |-> JUndefined]

ValueMessage(v) == [fromRaw |-> FALSE, text |-> <<>>, val |-> v]

\* FallbackResult with a fixed empty message in place of the reply text
FallbackResultEmptyMessage(reply) ==
    [ready |-> TRUE, message |-> RawMessage(<<>>),
     hasSensitiveInfo |-> JBool(FALSE), hasReviewIssues |-> JBool(FALSE)]

\* the catch block of parseAIResponse
FallbackResult(reply) ==
    [ready |-> TRUE, message |-> RawMessage(ContentOrEmpty(reply)),
     hasSensitiveInfo |-> JBool(FALSE), hasReviewIssues |-> JBool(FALSE)]

\* parseAIResponse(response): [result, log]
parseAIResponse(reply) ==
    LET parsed   == JSONParse(ContentOrEmpty(reply))
        security == GetProp(parsed.v, "security")
        sensitive == GetProp(security.v, "hasSensitiveInfo")
        review   == GetProp(parsed.v, "review")
        issues   == GetProp(review.v, "hasIssues")
        feedback == GetProp(review.v, "feedback")
        commit   == GetProp(parsed.v, "commit")
        message  == GetProp(commit.v, "message")
        fallback(l) == [result |-> FallbackResult(reply), log |-> l \o <<"parse-fallback">>]
        warned   == IF Truthy(sensitive.v) THEN <<"security-warning">> ELSE <<>>
    IN  IF ~parsed.ok THEN fallback(<<>>)
        ELSE IF security.throws \/ sensitive.throws THEN fallback(<<>>)
        ELSE IF review.throws \/ issues.throws THEN fallback(warned)
        ELSE IF Truthy(issues.v) /\ FeedbackThrows(feedback.v) THEN fallback(warned)
        ELSE IF commit.throws \/ message.throws
        THEN fallback(warned \o (IF Truthy(issues.v) /\ FeedbackShown(feedback.v)
                                 THEN <<"review-feedback">> ELSE <<>>))
        ELSE [result |-> [ready |-> TRUE, message |-> ValueMessage(message.v),
                          hasSensitiveInfo |-> sensitive.v,
                          hasReviewIssues |-> issues.v],
              log |-> warned \o (IF Truthy(issues.v) /\ FeedbackShown(feedback.v)
                                 THEN <<"review-feedback">> ELSE <<>>)]

NoResponseContent == <<"No response content from OpenAI">>

SyntaxError == <<"Unexpected token in JSON">>

TypeError == <<"Cannot read properties of undefined">>

\* reviewCode after the API call: [throws, err, log, result]
parseReviewResponse(reply) ==
    LET parsed   == JSONParse(reply.text)
        security == GetProp(parsed.v, "security")
        sensitive == GetProp(security.v, "hasSensitiveInfo")
        details  == GetProp(security.v, "details")
        review   == GetProp(parsed.v, "review")
        feedback == GetProp(review.v, "feedback")
        thrown(e, l) == [throws |-> TRUE, err |-> e, log |-> l, result |-> JUndefined]
        warned   == IF Truthy(sensitive.v) THEN <<"security-warning">> ELSE <<>>
    IN  IF reply.null \/ reply.text = <<>> THEN thrown(NoResponseContent, <<>>)
        ELSE IF ~parsed.ok THEN thrown(SyntaxError, <<>>)
        ELSE IF security.throws \/ sensitive.throws THEN thrown(TypeError, <<>>)
        \* handleSecurityWarning calls details.forEach
        ELSE IF Truthy(sensitive.v) /\ details.v.t # "arr" THEN thrown(TypeError, <<>>)
        ELSE IF review.throws \/ feedback.throws THEN thrown(TypeError, warned)
        ELSE IF FeedbackThrows(feedback.v) THEN thrown(TypeError, warned)
        ELSE [throws |-> FALSE, err |-> <<>>,
              log |-> warned \o (IF FeedbackShown(feedback.v)
                                 THEN <<"review-feedback">> ELSE <<"no-issues">>),
              result |-> parsed.v]

(***************************************************************************)
(* What the collaborators can answer.                                      *)
(***************************************************************************)
\* lines of a unified diff
HeaderA == <<"+", "+", "+", " ", "b", "/", "a">>

HeaderB == <<"+", "+", "+", " ", "b", "/", "b">>

HeaderDevNull == <<"+", "+", "+", " ", "/", "d", "e", "v", "/", "n", "u", "l", "l">>

OldHeaderA == <<"-", "-", "-", " ", "a", "/", "a">>

\* a hunk header with an old count and a two-digit new start
HunkHeader == <<"@", "@", " ", "-", "3", ",", "1", " ", "+", "1", "2", ",", "2", " ", "@", "@">>

ContextLine == <<" ", "c">>

AddedLine == <<"+", "x">>

DeletedLine == <<"-", "o">>

\* the scenario of the specification: a.txt, one hunk, line 4 added
ScenarioPath == <<"a", ".", "t", "x", "t">>

ScenarioDiff ==
    JoinLines(<< <<"-", "-", "-", " ", "a", "/", "a", ".", "t", "x", "t">>,
                 <<"+", "+", "+", " ", "b", "/", "a", ".", "t", "x", "t">>,
                 <<"@", "@", " ", "-", "1", ",", "3", " ", "+", "1", ",", "4", " ", "@", "@">>,
                 <<" ", "l", "1">>, <<" ", "l", "2">>, <<" ", "l", "3">>,
                 <<"+", "l", "i", "n", "e", "4">> >>)

\* a file of the top directory whose name is a number
HeaderSeven == <<"+", "+", "+", " ", "b", "/", "7">>

\* b without an added line, then the file 7 with one
NumberedFileDiff == JoinLines(<<HeaderB, HeaderSeven, HunkHeader, AddedLine>>)

TwoFileDiff ==
    JoinLines(<<OldHeaderA, HeaderA, HunkHeader, ContextLine, AddedLine,
                HeaderB, HunkHeader, DeletedLine, AddedLine, AddedLine>>)

\* the diffs git answers with in the command line specification; <<>> is ''
CliDiffs == {<<>>, ScenarioDiff, TwoFileDiff, NumberedFileDiff}

LineAlphabet ==
    {HeaderA, HeaderB, HeaderDevNull, HunkHeader, ContextLine, AddedLine, DeletedLine}

SeqsUpTo(S, n) == UNION { [1..k -> S] : k \in 0..n }

\* the diffs git answers with in the parser specification
ParseDiffs ==
    { JoinLines(ls) : ls \in SeqsUpTo(LineAlphabet, MaxDiffLines) }
        \cup {ScenarioDiff, TwoFileDiff}

FileLine(text, width) == [text |-> text, width |-> width]

\* a committed file far below the size threshold
SmallFile == [ok |-> TRUE, lines |-> <<FileLine("l1", 2), FileLine("l2", 2), FileLine("", 0)>>]

\* a committed file of three long lines, above the size threshold
LargeFile ==
    [ok |-> TRUE,
     lines |-> <<FileLine("L1", 20000), FileLine("L2", 20000), FileLine("L3", 20000)>>]

\* an empty committed file
EmptyFile == [ok |-> TRUE, lines |-> <<FileLine("", 0)>>]

CliShows == {ShowFails, EmptyFile, SmallFile, LargeFile}

ParseShows == {ShowFails, SmallFile}

BranchNames == {"", "main", "feature-x"}

ApiKeys == {"", "sk-test"}

\* the error text of the version-control tool
GitErrorText == <<"fatal: ambiguous argument: unknown revision or path not in the working tree.">>

ApiErrorText == <<"Connection error.">>

(***************************************************************************)
(* The replies of the language model.                                      *)
(***************************************************************************)
FeedbackItem == JObj(<<"file", "description">>, <<JStr("a.txt"), JStr("unused variable")>>)

\* each field of the reply is absent (<<>>) or present with one value
SecurityFields ==
    { <<>>, <<JNull>>, <<JObj(<<>>, <<>>)>>,
      <<JObj(<<"hasSensitiveInfo">>, <<JBool(FALSE)>>)>>,
      <<JObj(<<"hasSensitiveInfo">>, <<JBool(TRUE)>>)>>,
      <<JObj(<<"hasSensitiveInfo", "details">>,
             <<JBool(TRUE), JArr(<<JStr("a.txt - [key]: sk-live")>>)>>)>> }

ReviewFields ==
    { <<>>,
      <<JObj(<<"hasIssues">>, <<JBool(FALSE)>>)>>,
      <<JObj(<<"hasIssues", "feedback">>, <<JBool(FALSE), JArr(<<>>)>>)>>,
      <<JObj(<<"hasIssues">>, <<JBool(TRUE)>>)>>,
      <<JObj(<<"hasIssues", "feedback">>, <<JBool(TRUE), JArr(<<>>)>>)>>,
      <<JObj(<<"hasIssues", "feedback">>, <<JBool(TRUE), JArr(<<FeedbackItem>>)>>)>>,
      <<JObj(<<"hasIssues", "feedback">>, <<JBool(TRUE), JArr(<<JNull>>)>>)>> }

CommitFields ==
    { <<>>, <<JObj(<<>>, <<>>)>>, <<JObj(<<"message">>, <<JStr("feat: add line4")>>)>> }

Keyed(key, field) == IF field = <<>> THEN <<>> ELSE <<key>>

ReplyObject(sec, rev, com) ==
    JObj(Keyed("security", sec) \o Keyed("review", rev) \o Keyed("commit", com),
         sec \o rev \o com)

ReplyValues ==
    { ReplyObject(sec, rev, com) :
          sec \in SecurityFields, rev \in ReviewFields, com \in CommitFields }
        \cup {JStr("feat: add line4"), JNull, JBool(TRUE), JArr(<<>>)}

\* a reply with every field, the text the prompt asks for
FullReplies ==
    { Stringify(ReplyObject(sec, <<JObj(<<"hasIssues", "feedback">>,
                                        <<JBool(i), JArr(<<>>)>>)>>,
                            <<JObj(<<"message">>, <<JStr("feat: add line4")>>)>>)) :
          sec \in { <<JObj(<<"hasSensitiveInfo", "details">>,
                           <<JBool(b), JArr(<<>>)>>)>> : b \in BOOLEAN },
          i \in BOOLEAN }

\* texts JSON.parse rejects: the empty text, prose, prose around the reply,
\* a reply cut off by the token limit, a trailing comma
MalformedTexts ==
    { <<>>, <<Word("feat:"), Word("add"), Word("line4")>> }
        \cup { <<Word("Here"), Word("you"), Word("go:")>> \o t : t \in FullReplies }
        \cup { SubSeq(t, 1, Len(t) - 1) : t \in FullReplies }
        \cup { SubSeq(t, 1, Len(t) - 1) \o <<P(","), P("}")>> : t \in FullReplies }

Text(t) == [got |-> TRUE, null |-> FALSE, text |-> t]

NoReply == [got |-> FALSE, null |-> TRUE, text |-> <<>>]

\* message.content of the first choice: a text, or null
Replies ==
    { Text(Stringify(v)) : v \in ReplyValues }
        \cup { Text(t) : t \in FullReplies \cup MalformedTexts }
        \cup { [got |-> TRUE, null |-> TRUE, text |-> <<>>] }

(***************************************************************************)
(* The state of one invocation of the tool.                                *)
(***************************************************************************)
VARIABLES
    pc,            \* where the invocation stands
    cmd,           \* "default" or "review"
    options,       \* the flags of the default command
    source,        \* review <source> <target>
    target,
    apiKey,        \* the stored API credential, "" if none
    diffOptions,   \* the argument of getSmartDiff
    gitCalls,      \* the calls made to the version-control tool, in order
    apiCalls,      \* the number of API requests issued
    diff,          \* getSmartDiff: the diff text
    diffLines,     \*   diff.split('\n')
    idx,           \*   the line the parsing loop is at
    currentFile,
    currentLine,
    changedFiles,  \*   Map<string, Set<number>>
    ci,            \*   the entry of changedFiles the content loop is at
    fileContents,  \*   Map<string, string>
    inFlight,      \*   the files whose git.show has been called and not yet answered
    contentOf,     \*   content: what getSmartFileContent returned, entry by entry
    stats,         \*   the comparison the --stat summary was computed for
    reply,         \* message.content of the API response
    result,        \* what generateCommitMessage returned
    err,           \* the message of the error that ended the run
    exitCode,      \* the exit code of the process
    log,           \* what was printed, as tags
    setupSpawned,  \* the setup wizard was started
    sPc,           \* getSmartFileContent called on its own: where the call stands
    sShow,         \*   what git.show answers for the file
    sDiffLines,    \*   diffLines: Set<number>, as the sequence of its insertions
    sk,            \*   the element of diffLines the forEach is at
    sRelevant,     \*   relevantLines: Set<number>, as the sequence of its insertions
    sSorted,       \*   sortedLines
    sj,            \*   the element of sortedLines the building loop is at
    sResult,       \*   result, as the pieces appended so far
    sLast,         \*   lastLine
    sReturn,       \*   what the call returned
    sCalls,        \*   the calls that have returned
    sFirst,        \*   the changed lines of the first call and what it returned
    openAiModel,   \* the configuration store: the value under the key openAiModel
    configCall,    \* the last call of a function of utils/config.ts and its argument
    configResult,  \*   what it returned
    setupPc,       \* the setup wizard (setup.ts): where the run stands
    setupExit,     \*   the exit code of the wizard's process
    setupRuns,     \*   the runs of the wizard started so far
    typed          \*   the line the user typed at the last prompt

vars == <<pc, cmd, options, source, target, apiKey, diffOptions, gitCalls, apiCalls,
          diff, diffLines, idx, currentFile, currentLine, changedFiles, ci,
          fileContents, inFlight, contentOf, stats, reply, result, err, exitCode, log,
          setupSpawned, sPc, sShow, sDiffLines, sk, sRelevant, sSorted, sj, sResult, sLast, sReturn,
          sCalls, sFirst, openAiModel, configCall, configResult,
          setupPc, setupExit, setupRuns, typed>>

invocation == <<cmd, options, source, target, apiKey>>

parserVars == <<diffLines, idx, currentFile, currentLine, changedFiles>>

contentVars == <<ci, fileContents, inFlight, contentOf, stats>>

replyVars == <<apiCalls, reply, result>>

endVars == <<pc, exitCode, err, log>>

samplerVars == <<sPc, sShow, sDiffLines, sk, sRelevant, sSorted, sj, sResult, sLast, sReturn,
          sCalls, sFirst>>

setupVars == <<setupPc, setupExit, setupRuns, typed>>

\* the configuration store and the wizard that writes it
configVars == <<openAiModel, configCall, configResult, setupPc, setupExit, setupRuns, typed>>

cliVars == <<pc, cmd, options, source, target, apiKey, diffOptions, gitCalls, apiCalls,
             diff, diffLines, idx, currentFile, currentLine, changedFiles, ci,
             fileContents, inFlight, contentOf, stats, reply, result, err, exitCode, log,
             setupSpawned>>

NoResult ==
    [ready |-> FALSE, message |-> ValueMessage(JUndefined),
     hasSensitiveInfo |-> JUndefined, hasReviewIssues |-> JUndefined]

NoOptions == [setup |-> FALSE, stage |-> FALSE, commit |-> FALSE, force |-> FALSE, debug |-> FALSE]

\* the state of the run before the command's action is called
Fresh ==
    /\ pc = "start"
    /\ diffOptions = [shouldStage |-> FALSE, fromBranch |-> "", toBranch |-> ""]
    /\ gitCalls = <<>>
    /\ apiCalls = 0
    /\ diff = <<>>
    /\ diffLines = <<>>
    /\ idx = 1
    /\ currentFile = ParseStart.currentFile
    /\ currentLine = ParseStart.currentLine
    /\ changedFiles = ParseStart.changedFiles
    /\ ci = 1
    /\ fileContents = <<>>
    /\ inFlight = {}
    /\ contentOf = <<>>
    /\ stats = ""
    /\ reply = NoReply
    /\ result = NoResult
    /\ err = <<>>
    /\ exitCode = 0
    /\ log = <<>>
    /\ setupSpawned = FALSE

NoConfigCall == [op |-> "none", arg |-> JUndefined]

\* a line typed at a prompt: its text between the blanks typed before and after it
Typed(lead, body, trail) == [lead |-> lead, body |-> body, trail |-> trail]

\* the setup wizard is not running
SetupIdle ==
    /\ setupPc = "idle"
    /\ setupExit = 0
    /\ setupRuns = 0
    /\ typed = Typed("", "", "")

\* no function of utils/config.ts has been called on its own; no model
\* preference is stored
ConfigIdle ==
    /\ openAiModel = JUndefined
    /\ configCall = NoConfigCall
    /\ configResult = JUndefined

\* the changed lines and the result of the first of the two calls
NoFirstCall == [diffLines |-> <<>>, value |-> NullContent]

\* no call of getSmartFileContent on its own is under way
SamplerIdle ==
    /\ sPc = "idle"
    /\ sShow = ShowFails
    /\ sDiffLines = <<>>
    /\ sk = 1
    /\ sRelevant = <<>>
    /\ sSorted = <<>>
    /\ sj = 1
    /\ sResult = <<>>
    /\ sLast = -1
    /\ sReturn = NullContent
    /\ sCalls = 0
    /\ sFirst = NoFirstCall

Init ==
    /\ Fresh
    /\ SetupIdle
    /\ SamplerIdle
    /\ ConfigIdle
    /\ apiKey \in ApiKeys
    /\ \/ /\ cmd = "default"
          /\ options \in [setup : BOOLEAN, stage : BOOLEAN, commit : BOOLEAN,
                          force : BOOLEAN, debug : BOOLEAN]
          /\ source = "" /\ target = ""
       \/ /\ cmd = "review"
          /\ options = NoOptions
          /\ source \in BranchNames /\ target \in BranchNames

(***************************************************************************)
(* Errors.                                                                 *)
(***************************************************************************)
\* error.message.includes(part), on messages kept as sequences of parts
Includes(msg, part) == \E i \in 1..Len(msg) : msg[i] = part

MissingKeyMessage == <<"OPENAI_API_KEY", " is not set in environment variables">>

NoChangesMessage == <<"No changes found in the repository.">>

\* the error of the tool passed on as it is
InvalidReferenceMessageUnwrapped(fromBranch, toBranch, text) == text

InvalidReferenceMessage(fromBranch, toBranch, text) ==
    <<"Failed to get diff between branches. Please verify that '", fromBranch,
      "' and '", toBranch, "' are valid branch names.", NL, "Error: ">> \o text

\* the catch block of main, and the catch block of reviewCode followed by the
\* one of the review action: the error is printed and the process exits with 1
CatchLog(msg) ==
    (IF cmd = "review" THEN <<"review-failed">> ELSE <<"error">>)
        \o (IF Includes(msg, "OPENAI_API_KEY") THEN <<"setup-hint">> ELSE <<>>)

\* Throw without the process.exit(1) of the catch block
ThrowWithoutExitCode(msg, printed) ==
    /\ pc' = "done"
    /\ exitCode' = 0
    /\ err' = msg
    /\ log' = log \o printed \o CatchLog(msg)

Throw(msg, printed) ==
    /\ pc' = "done"
    /\ exitCode' = 1
    /\ err' = msg
    /\ log' = log \o printed \o CatchLog(msg)

\* process.exit(code) or the end of the action
Exit(code, printed) ==
    /\ pc' = "done"
    /\ exitCode' = code
    /\ err' = err
    /\ log' = log \o printed

Goto(label, printed) ==
    /\ pc' = label
    /\ exitCode' = exitCode
    /\ err' = err
    /\ log' = log \o printed

\* a call of the version-control tool and whether it succeeded
GitCall(op, args, ok) == [op |-> op, args |-> args, ok |-> ok]

BaseArgs == << <<"--unified=8">>, <<"--function-context">>, <<"--diff-algorithm=histogram">> >>

(***************************************************************************)
(* The commands.                                                           *)
(***************************************************************************)
\* main with the wizard spawned and the run going on to generateCommitMessage
mainGoingOnAfterSetup ==
    /\ pc = "start" /\ cmd = "default"
    /\ setupSpawned' = options.setup
    /\ IF apiKey = ""
       THEN Throw(MissingKeyMessage, <<>>) /\ UNCHANGED diffOptions
       ELSE /\ diffOptions' = [shouldStage |-> options.stage,
                               fromBranch |-> "", toBranch |-> ""]
            /\ Goto("stage", <<>>)
    /\ UNCHANGED <<samplerVars, configVars, invocation, gitCalls, diff, parserVars,
                   contentVars, replyVars>>

\* main with the credential looked up after getSmartDiff, as reviewCode does
mainLookingUpKeyLate ==
    /\ pc = "start" /\ cmd = "default"
    /\ IF options.setup
       THEN /\ setupSpawned' = TRUE
            /\ Exit(0, <<>>)
            /\ UNCHANGED diffOptions
       ELSE /\ UNCHANGED setupSpawned
            /\ diffOptions' = [shouldStage |-> options.stage,
                               fromBranch |-> "", toBranch |-> ""]
            /\ Goto("stage", <<>>)
    /\ UNCHANGED <<samplerVars, configVars, invocation, gitCalls, diff, parserVars,
                   contentVars, replyVars>>

\* main(options) up to the call of getSmartDiff: --setup spawns the wizard and
\* returns; otherwise generateCommitMessage starts with initializeOpenAI
main ==
    /\ pc = "start" /\ cmd = "default"
    /\ IF options.setup
       THEN /\ setupSpawned' = TRUE
            /\ Exit(0, <<>>)
            /\ UNCHANGED diffOptions
       ELSE /\ UNCHANGED setupSpawned
            /\ IF apiKey = ""
               THEN Throw(MissingKeyMessage, <<>>) /\ UNCHANGED diffOptions
               ELSE /\ diffOptions' = [shouldStage |-> options.stage,
                                       fromBranch |-> "", toBranch |-> ""]
                    /\ Goto("stage", <<>>)
    /\ UNCHANGED <<samplerVars, configVars, invocation, gitCalls, diff, parserVars, contentVars, replyVars>>

\* the review action up to the call of getSmartDiff
review ==
    /\ pc = "start" /\ cmd = "review"
    /\ diffOptions' = [shouldStage |-> FALSE, fromBranch |-> source, toBranch |-> target]
    /\ Goto("stage", <<>>)
    /\ UNCHANGED <<samplerVars, configVars, invocation, gitCalls, diff, parserVars, contentVars, replyVars,
                   setupSpawned>>

(***************************************************************************)
(* getSmartDiff.                                                           *)
(***************************************************************************)
\* stageChanges with git.add('.') called whether or not shouldStage is set
stageChangesUnconditionally ==
    /\ pc = "stage"
    /\ \/ /\ gitCalls' = Append(gitCalls, GitCall("add", << <<".">> >>, TRUE))
          /\ Goto("diff", <<>>)
       \/ /\ gitCalls' = Append(gitCalls, GitCall("add", << <<".">> >>, FALSE))
          /\ Throw(GitErrorText, <<>>)
    /\ UNCHANGED <<samplerVars, configVars, invocation, diffOptions, diff, parserVars,
                   contentVars, replyVars, setupSpawned>>

\* stageChanges with a failure of git.add('.') passed over
stageChangesPassingOverFailure ==
    /\ pc = "stage"
    /\ IF diffOptions.shouldStage
       THEN \E ok \in BOOLEAN :
               /\ gitCalls' = Append(gitCalls, GitCall("add", << <<".">> >>, ok))
               /\ Goto("diff", <<>>)
       ELSE /\ UNCHANGED gitCalls
            /\ IF diffOptions.fromBranch = "" /\ diffOptions.toBranch = ""
               THEN Goto("diff", <<"note-staged-only">>)
               ELSE Goto("diff", <<>>)
    /\ UNCHANGED <<samplerVars, configVars, invocation, diffOptions, diff, parserVars,
                   contentVars, replyVars, setupSpawned>>

\* "Handle staging if needed": git.add('.') or the note about staged changes
stageChanges ==
    /\ pc = "stage"
    /\ IF diffOptions.shouldStage
       THEN \/ /\ gitCalls' = Append(gitCalls, GitCall("add", << <<".">> >>, TRUE))
               /\ Goto("diff", <<>>)
            \/ /\ gitCalls' = Append(gitCalls, GitCall("add", << <<".">> >>, FALSE))
               /\ Throw(GitErrorText, <<>>)
       ELSE /\ UNCHANGED gitCalls
            /\ IF diffOptions.fromBranch = "" /\ diffOptions.toBranch = ""
               THEN Goto("diff", <<"note-staged-only">>)
               ELSE Goto("diff", <<>>)
    /\ UNCHANGED <<samplerVars, configVars, invocation, diffOptions, diff, parserVars, contentVars, replyVars,
                   setupSpawned>>

BranchPair == diffOptions.fromBranch # "" /\ diffOptions.toBranch # ""

\* the diff is kept and, unless it is empty, split into the lines to parse
StartParsing(d) ==
    /\ diff' = d
    /\ diffLines' = Split(d)
    /\ idx' = 1
    /\ currentFile' = ParseStart.currentFile
    /\ currentLine' = ParseStart.currentLine
    /\ changedFiles' = ParseStart.changedFiles
    /\ Goto("parse", <<>>)

\* NoChanges without the check  !diff : the empty diff is parsed
NoChangesUnchecked(d) == StartParsing(d)

NoChanges(d) ==
    /\ diff' = d
    /\ Throw(NoChangesMessage, <<>>)
    /\ UNCHANGED parserVars

\* git.diff([...baseArgs, `${fromBranch}...${toBranch}`]) and the check  !diff
DiffBranchesFrom(answers) ==
    /\ pc = "diff" /\ BranchPair
    /\ \E ok \in BOOLEAN :
          /\ gitCalls' = Append(gitCalls, GitCall("diff",
                Append(BaseArgs, <<diffOptions.fromBranch, "...", diffOptions.toBranch>>),
                ok))
          /\ IF ok
             THEN \E d \in answers : IF d = <<>> THEN NoChanges(d) ELSE StartParsing(d)
             ELSE /\ Throw(InvalidReferenceMessage(diffOptions.fromBranch,
                                                   diffOptions.toBranch, GitErrorText),
                           <<>>)
                  /\ UNCHANGED <<diff, parserVars>>
    /\ UNCHANGED <<samplerVars, configVars, invocation, diffOptions, contentVars, replyVars, setupSpawned>>

\* git.diff(['--staged', ...baseArgs]); an empty answer leads to the second call
DiffStagedFrom(answers) ==
    /\ pc = "diff" /\ ~BranchPair
    /\ \E ok \in BOOLEAN :
          /\ gitCalls' = Append(gitCalls,
                GitCall("diff", << <<"--staged">> >> \o BaseArgs, ok))
          /\ IF ok
             THEN \E d \in answers :
                     IF d = <<>>
                     THEN diff' = d /\ Goto("diffUnstaged", <<>>) /\ UNCHANGED parserVars
                     ELSE StartParsing(d)
             ELSE Throw(GitErrorText, <<>>) /\ UNCHANGED <<diff, parserVars>>
    /\ UNCHANGED <<samplerVars, configVars, invocation, diffOptions, contentVars, replyVars, setupSpawned>>

\* ... || await git.diff(baseArgs)  and the check  !diff
DiffUnstagedFrom(answers) ==
    /\ pc = "diffUnstaged"
    /\ \E ok \in BOOLEAN :
          /\ gitCalls' = Append(gitCalls, GitCall("diff", BaseArgs, ok))
          /\ IF ok
             THEN \E d \in answers : IF d = <<>> THEN NoChanges(d) ELSE StartParsing(d)
             ELSE Throw(GitErrorText, <<>>) /\ UNCHANGED <<diff, parserVars>>
    /\ UNCHANGED <<samplerVars, configVars, invocation, diffOptions, contentVars, replyVars, setupSpawned>>

diffBranches == DiffBranchesFrom(CliDiffs)

diffStaged == DiffStagedFrom(CliDiffs)

diffUnstaged == DiffUnstagedFrom(CliDiffs)

\* one line of the parsing loop; after the last line the content loop starts
parseLine ==
    /\ pc = "parse" /\ idx <= Len(diffLines)
    /\ LET p == ParseStep([currentFile |-> currentFile, currentLine |-> currentLine,
                           changedFiles |-> changedFiles], diffLines[idx])
       IN  /\ currentFile' = p.currentFile
           /\ currentLine' = p.currentLine
           /\ changedFiles' = p.changedFiles
    /\ idx' = idx + 1
    /\ IF idx = Len(diffLines) THEN Goto("content", <<>>) ELSE Goto("parse", <<>>)
    /\ ci' = 1
    /\ UNCHANGED <<samplerVars, configVars, invocation, diffOptions, gitCalls, diff, diffLines, fileContents,
                   inFlight, contentOf, stats, replyVars, setupSpawned>>

\* callShow without the await: the loop goes on to the next file at once
callShowWithoutAwait ==
    /\ pc = "content" /\ ci <= Len(changedFiles)
    /\ inFlight' = inFlight \cup {changedFiles[ci].key}
    /\ ci' = ci + 1
    /\ Goto("content", <<>>)
    /\ UNCHANGED <<samplerVars, configVars, invocation, diffOptions, gitCalls, diff,
                   parserVars, fileContents, contentOf, stats, replyVars, setupSpawned>>

\* one iteration of the content loop, up to the await: getSmartFileContent calls
\* getFileContent, which calls git.show(['HEAD:<path>'])
callShow ==
    /\ pc = "content" /\ ci <= Len(changedFiles)
    /\ inFlight' = inFlight \cup {changedFiles[ci].key}
    /\ Goto("show", <<>>)
    /\ UNCHANGED <<samplerVars, configVars, invocation, diffOptions, gitCalls, diff,
                   parserVars, ci, fileContents, contentOf, stats, replyVars, setupSpawned>>

\* FetchContentFrom with a failure of git.show thrown on to the caller
FetchContentFromRethrowing(answers) ==
    /\ pc = "show"
    /\ \E show \in answers :
          LET content == getSmartFileContent(show, changedFiles[ci].val)
          IN  /\ gitCalls' = Append(gitCalls,
                    GitCall("show", << <<"HEAD:">> \o changedFiles[ci].key >>, show.ok))
              /\ contentOf' = Append(contentOf, content)
              /\ IF show.ok
                 THEN /\ fileContents' = IF SampleTruthy(content)
                                         THEN MapSet(fileContents, changedFiles[ci].key, content)
                                         ELSE fileContents
                      /\ ci' = ci + 1
                      /\ Goto("content", <<>>)
                 ELSE /\ UNCHANGED <<fileContents, ci>>
                      /\ Throw(GitErrorText, <<>>)
    /\ inFlight' = inFlight \ {changedFiles[ci].key}
    /\ UNCHANGED <<samplerVars, configVars, invocation, diffOptions, diff, parserVars, stats,
                   replyVars, setupSpawned>>

\* the rest of the iteration: the answer of git.show, sampling, fileContents.set
FetchContentFrom(answers) ==
    /\ pc = "show"
    /\ \E show \in answers :
          LET content == getSmartFileContent(show, changedFiles[ci].val)
          IN  /\ gitCalls' = Append(gitCalls,
                    GitCall("show", << <<"HEAD:">> \o changedFiles[ci].key >>, show.ok))
              /\ contentOf' = Append(contentOf, content)
              /\ fileContents' = IF SampleTruthy(content)
                                 THEN MapSet(fileContents, changedFiles[ci].key, content)
                                 ELSE fileContents
    /\ inFlight' = inFlight \ {changedFiles[ci].key}
    /\ ci' = ci + 1
    /\ Goto("content", <<>>)
    /\ UNCHANGED <<samplerVars, configVars, invocation, diffOptions, diff, parserVars, stats, replyVars,
                   setupSpawned>>

fetchContent == FetchContentFrom(CliShows)

\* the comparison a git diff with these arguments is about
Comparison(args) ==
    IF \E i \in 1..Len(args) : Len(args[i]) = 3 /\ args[i][2] = "..." THEN "range"
    ELSE IF \E i \in 1..Len(args) : args[i] = <<"--staged">> THEN "staged"
    ELSE "unstaged"

StatArgs == << <<"--stat">> >>

\* a property key that is an array index: a canonical decimal number below
\* 2^32 - 1 (no path of the model has ten digits)
IsArrayIndex(key) ==
    /\ key # <<>>
    /\ \A i \in 1..Len(key) : IsDigit(key[i])
    /\ Len(key) = 1 \/ key[1] # "0"
    /\ Len(key) <= 9

\* Object.fromEntries(map), as the sequence of the object's own properties in
\* the order Object.entries and Object.keys give them: the array indices first,
\* ascending, then the other keys in the order of their insertion
ObjectFromEntries(m) ==
    LET indexed == SelectSeq(m, LAMBDA e : IsArrayIndex(e.key))
        named   == SelectSeq(m, LAMBDA e : ~IsArrayIndex(e.key))
        numbers == SortAscending({ ParseInt(indexed[i].key) : i \in 1..Len(indexed) })
    IN  [i \in 1..Len(numbers) |->
            indexed[CHOOSE j \in 1..Len(indexed) : ParseInt(indexed[j].key) = numbers[i]]]
            \o named

\* the object getSmartDiff returns
Payload ==
    [diff |-> diff,
     changedFiles |-> MapKeys(changedFiles),
     stats |-> stats,
     fileContents |-> ObjectFromEntries(fileContents)]

\* stats: await git.diff(['--stat']), then the payload is returned; the default
\* command prints it under --debug
diffStat ==
    /\ pc = "content" /\ ci > Len(changedFiles)
    /\ \E ok \in BOOLEAN :
          /\ gitCalls' = Append(gitCalls, GitCall("diff", StatArgs, ok))
          /\ IF ok
             THEN /\ stats' = Comparison(StatArgs)
                  /\ Goto("api", IF options.debug THEN <<"debug">> ELSE <<>>)
             ELSE Throw(GitErrorText, <<>>) /\ UNCHANGED stats
    /\ UNCHANGED <<samplerVars, configVars, invocation, diffOptions, diff, parserVars, ci, fileContents,
                   inFlight, contentOf, replyVars, setupSpawned>>

(***************************************************************************)
(* The API round trip and what follows it.                                 *)
(***************************************************************************)
\* AfterGenerate with --force lifting the block on sensitive information too
AfterGenerateForceLiftsAll(res, opts) ==
    IF Truthy(res.hasSensitiveInfo) /\ opts.commit /\ ~opts.force
    THEN "commit-blocked-sensitive"
    ELSE IF Truthy(res.hasReviewIssues) /\ opts.commit /\ ~opts.force
    THEN "commit-blocked-review"
    ELSE IF opts.commit THEN "commit"
    ELSE "print"

\* AfterGenerate with --force not consulted
AfterGenerateWithoutForce(res, opts) ==
    IF Truthy(res.hasSensitiveInfo) /\ opts.commit THEN "commit-blocked-sensitive"
    ELSE IF Truthy(res.hasReviewIssues) /\ opts.commit THEN "commit-blocked-review"
    ELSE IF opts.commit THEN "commit"
    ELSE "print"

\* main after generateCommitMessage has returned: what the result and the flags
\* lead to
AfterGenerate(res, opts) ==
    IF Truthy(res.hasSensitiveInfo) /\ opts.commit THEN "commit-blocked-sensitive"
    ELSE IF Truthy(res.hasReviewIssues) /\ opts.commit /\ ~opts.force
    THEN "commit-blocked-review"
    ELSE IF opts.commit THEN "commit"
    ELSE "print"

\* generateCommitMessage from openai.chat.completions.create on, then main up to
\* the commit: the two blocking checks, the suggested message, the way to commit
generateCommitMessage ==
    /\ pc = "api" /\ cmd = "default"
    /\ apiCalls' = apiCalls + 1
    /\ \/ Throw(ApiErrorText, <<>>) /\ UNCHANGED <<reply, result>>
       \/ \E r \in Replies :
             LET parsed == parseAIResponse(r)
             IN  /\ reply' = r
                 /\ result' = parsed.result
                 /\ LET next == AfterGenerate(parsed.result, options)
                    IN  IF next \in {"commit-blocked-sensitive", "commit-blocked-review"}
                        THEN Exit(1, parsed.log \o <<next>>)
                        ELSE IF next = "commit"
                        THEN Goto("commit", parsed.log \o <<"suggested">>)
                        ELSE Exit(0, parsed.log \o <<"suggested", "how-to-commit">>)
    /\ UNCHANGED <<samplerVars, configVars, invocation, diffOptions, gitCalls, diff, parserVars, contentVars,
                   setupSpawned>>

\* await git.commit(result.message)
commit ==
    /\ pc = "commit"
    /\ \E ok \in BOOLEAN :
          /\ gitCalls' = Append(gitCalls, GitCall("commit", <<>>, ok))
          /\ IF ok THEN Exit(0, <<"committed">>) ELSE Throw(GitErrorText, <<>>)
    /\ UNCHANGED <<samplerVars, configVars, invocation, diffOptions, diff, parserVars, contentVars, replyVars,
                   setupSpawned>>

\* reviewCode from initializeOpenAI on, and the review action around it
reviewCode ==
    /\ pc = "api" /\ cmd = "review"
    /\ IF apiKey = ""
       THEN Throw(MissingKeyMessage, <<>>) /\ UNCHANGED replyVars
       ELSE /\ apiCalls' = apiCalls + 1
            /\ UNCHANGED result
            /\ \/ Throw(ApiErrorText, <<>>) /\ UNCHANGED reply
               \/ \E r \in Replies :
                     LET parsed == parseReviewResponse(r)
                     IN  /\ reply' = r
                         /\ IF parsed.throws
                            THEN Throw(parsed.err, parsed.log)
                            ELSE Exit(0, parsed.log)
    /\ UNCHANGED <<samplerVars, configVars, invocation, diffOptions, gitCalls, diff, parserVars, contentVars,
                   setupSpawned>>

Next ==
    \/ main
    \/ review
    \/ stageChanges
    \/ diffBranches
    \/ diffStaged
    \/ diffUnstaged
    \/ parseLine
    \/ callShow
    \/ fetchContent
    \/ diffStat
    \/ generateCommitMessage
    \/ commit
    \/ reviewCode

Spec == Init /\ [][Next]_vars

(***************************************************************************)
(* getSmartDiff on its own, called as the default command calls it, with   *)
(* the staged diff ranging over every short sequence of diff lines.        *)
(***************************************************************************)
InitParse ==
    /\ Fresh
    /\ SetupIdle
    /\ SamplerIdle
    /\ ConfigIdle
    /\ apiKey = "sk-test"
    /\ cmd = "default"
    /\ options \in {NoOptions, [NoOptions EXCEPT !.stage = TRUE]}
    /\ source = "" /\ target = ""

parseDiffStaged == DiffStagedFrom(ParseDiffs)

parseFetchContent == FetchContentFrom(ParseShows)

NextParse ==
    \/ main
    \/ stageChanges
    \/ parseDiffStaged
    \/ diffUnstaged
    \/ parseLine
    \/ callShow
    \/ parseFetchContent
    \/ diffStat

SpecParse == InitParse /\ [][NextParse]_vars

(***************************************************************************)
(* getSmartFileContent on its own, statement by statement, called twice    *)
(* on the same committed file with the same changed lines.  A Set<number>  *)
(* of JavaScript is iterated in the order of its insertions, so diffLines  *)
(* and relevantLines are the sequences of their insertions.                *)
(***************************************************************************)
MaxChanged == 3

BigFileLines == 160

Range(seq) == { seq[i] : i \in 1..Len(seq) }

\* for (let i = start; i < end; i++) relevantLines.add(i): the indices from
\* start up to end - 1 that the set does not hold yet are inserted in this order
AddRange(seq, start, end) ==
    IF start >= end THEN seq
    ELSE seq \o SelectSeq([i \in 1..(end - start) |-> start + i - 1],
                          LAMBDA x : x \notin Range(seq))

\* SortNumbers without the sort: the order of the insertions is kept
SortNumbersKeepingOrder(seq) == seq

\* Array.from(relevantLines).sort((a, b) => a - b)
SortNumbers(seq) == SortAscending(Range(seq))

\* a committed file of n lines of the given width, each line with its own text
FileOfLines(n, width) ==
    [ok |-> TRUE, lines |-> [i \in 1..n |-> FileLine(ToString(i), width)]]

\* 160 lines of 400 characters: above the size threshold
BigFile == FileOfLines(BigFileLines, 400)

\* two lines that make content.length the threshold exactly, and one less
ThresholdFile ==
    [ok |-> TRUE, lines |-> <<FileLine("T1", 25600), FileLine("T2", 25599)>>]

BelowThresholdFile ==
    [ok |-> TRUE, lines |-> <<FileLine("T1", 25600), FileLine("T2", 25598)>>]

SampleShows == {ShowFails, EmptyFile, SmallFile, BelowThresholdFile, ThresholdFile, BigFile}

\* new-file line numbers the parser can hand over for a file
ChangedLineNumbers == {1, 26, 76, 80, 130, 200}

\* the orders in which up to MaxChanged line numbers can have been inserted
ChangedLineOrders ==
    { o \in SeqsUpTo(ChangedLineNumbers, MaxChanged) :
        \A i, j \in 1..Len(o) : i # j => o[i] # o[j] }

Reorderings(seq) ==
    { o \in [1..Len(seq) -> Range(seq)] : Range(o) = Range(seq) }

InitSample ==
    /\ Fresh
    /\ SetupIdle
    /\ ConfigIdle
    /\ cmd = "default" /\ options = NoOptions /\ source = "" /\ target = ""
    /\ apiKey = "sk-test"
    /\ sPc = "show"
    /\ sShow \in SampleShows
    /\ sDiffLines \in ChangedLineOrders
    /\ sk = 1
    /\ sRelevant = <<>>
    /\ sSorted = <<>>
    /\ sj = 1
    /\ sResult = <<>>
    /\ sLast = -1
    /\ sReturn = NullContent
    /\ sCalls = 0
    /\ sFirst = NoFirstCall

Return(value) ==
    /\ sReturn' = value
    /\ sCalls' = sCalls + 1
    /\ sPc' = "returned"

\* getFileContent, if (!content) return null, and the size test
sampleShow ==
    /\ sPc = "show"
    /\ IF ~sShow.ok \/ ContentLength(sShow.lines) = 0
       THEN Return(NullContent)
       ELSE IF ContentLength(sShow.lines) < MAX_FILE_SIZE
       THEN Return([null |-> FALSE, full |-> TRUE, pieces |-> sShow.lines])
       ELSE sPc' = "window" /\ UNCHANGED <<sReturn, sCalls>>
    /\ sk' = 1
    /\ sRelevant' = <<>>
    /\ sSorted' = <<>> /\ sj' = 1 /\ sResult' = <<>> /\ sLast' = -1
    /\ UNCHANGED <<cliVars, configVars, sShow, sDiffLines, sFirst>>

\* one iteration of diffLines.forEach
sampleWindow ==
    /\ sPc = "window" /\ sk <= Len(sDiffLines)
    /\ LET line  == sDiffLines[sk]
           start == Max(0, line - ContextWindow)
           end   == Min(Len(sShow.lines), line + ContextWindow)
       IN  sRelevant' = AddRange(sRelevant, start, end)
    /\ sk' = sk + 1
    /\ UNCHANGED <<cliVars, configVars, sPc, sShow, sDiffLines, sSorted, sj, sResult, sLast, sReturn,
                   sCalls, sFirst>>

\* if (relevantLines.size > MAX_LINES_CONTEXT) return null; and the sort
sampleBudget ==
    /\ sPc = "window" /\ sk > Len(sDiffLines)
    /\ IF Len(sRelevant) > MAX_LINES_CONTEXT
       THEN Return(NullContent) /\ UNCHANGED sSorted
       ELSE /\ sSorted' = SortNumbers(sRelevant)
            /\ sPc' = "build"
            /\ UNCHANGED <<sReturn, sCalls>>
    /\ UNCHANGED <<cliVars, configVars, sShow, sDiffLines, sk, sRelevant, sj, sResult, sLast, sFirst>>

\* one iteration of  for (const line of sortedLines)
sampleEmit ==
    /\ sPc = "build" /\ sj <= Len(sSorted)
    /\ sResult' = sResult \o EmitLine(sShow.lines, sSorted[sj], sLast)
    /\ sLast' = sSorted[sj]
    /\ sj' = sj + 1
    /\ UNCHANGED <<cliVars, configVars, sPc, sShow, sDiffLines, sk, sRelevant, sSorted, sReturn,
                   sCalls, sFirst>>

\* return result
sampleReturn ==
    /\ sPc = "build" /\ sj > Len(sSorted)
    /\ Return([null |-> FALSE, full |-> FALSE, pieces |-> sResult])
    /\ UNCHANGED <<cliVars, configVars, sShow, sDiffLines, sk, sRelevant, sSorted, sj, sResult, sLast,
                   sFirst>>

\* the second call: the same content, the same changed lines in any order
sampleAgain ==
    /\ sPc = "returned" /\ sCalls = 1
    /\ sFirst' = [diffLines |-> sDiffLines, value |-> sReturn]
    /\ sDiffLines' \in Reorderings(sDiffLines)
    /\ sPc' = "show"
    /\ UNCHANGED <<cliVars, configVars, sShow, sk, sRelevant, sSorted, sj, sResult, sLast, sReturn,
                   sCalls>>

NextSample ==
    \/ sampleShow
    \/ sampleWindow
    \/ sampleBudget
    \/ sampleEmit
    \/ sampleReturn
    \/ sampleAgain

SpecSample == InitSample /\ [][NextSample]_vars

(***************************************************************************)
(* utils/config.ts on its own: the store of the API credential and of the  *)
(* model preference, and the four functions that read and write it.        *)
(***************************************************************************)
DEFAULT_OPENAI_MODEL == "gpt-4o"

ModelNames == {"", "gpt-4o", "gpt-4", "gpt-3.5-turbo", "gpt-4o-mini", "o1"}

\* the arguments of setOpenAiModel: a string, or none
ModelArguments == {JUndefined} \cup { JStr(m) : m \in ModelNames }

StoredKeys == {"", "sk-test", "sk-new", "sk-old"}

\* OpenAiModelOf without the default: the stored value as it is
OpenAiModelOfStoredOnly(stored) == stored

\* config.get(CONFIG_KEYS.OPENAI_MODEL) as string || DEFAULT_OPENAI_MODEL
OpenAiModelOf(stored) == IF Truthy(stored) THEN stored ELSE JStr(DEFAULT_OPENAI_MODEL)

\* the parameter  model: string = DEFAULT_OPENAI_MODEL
ModelParameter(arg) == IF arg = JUndefined THEN JStr(DEFAULT_OPENAI_MODEL) ELSE arg

InitConfig ==
    /\ Fresh
    /\ SetupIdle
    /\ SamplerIdle
    /\ cmd = "default" /\ options = NoOptions /\ source = "" /\ target = ""
    /\ apiKey \in StoredKeys
    /\ openAiModel \in ModelArguments
    /\ configCall = NoConfigCall
    /\ configResult = JUndefined

\* nothing but the configuration store and the wizard changes
RunUnchanged ==
    UNCHANGED <<samplerVars, pc, cmd, options, source, target, diffOptions, gitCalls,
                apiCalls, diff, diffLines, idx, currentFile, currentLine, changedFiles, ci,
                fileContents, inFlight, contentOf, stats, reply, result, err, exitCode, log,
                setupSpawned>>

ConfigUnchanged == RunUnchanged /\ UNCHANGED setupVars

getApiKey ==
    /\ configCall' = [op |-> "getApiKey", arg |-> JUndefined]
    /\ configResult' = JStr(apiKey)
    /\ UNCHANGED <<apiKey, openAiModel>>
    /\ ConfigUnchanged

setApiKey ==
    /\ \E key \in StoredKeys \ {""} :
          /\ apiKey' = key
          /\ configCall' = [op |-> "setApiKey", arg |-> JStr(key)]
    /\ configResult' = JUndefined
    /\ UNCHANGED openAiModel
    /\ ConfigUnchanged

getOpenAiModel ==
    /\ configCall' = [op |-> "getOpenAiModel", arg |-> JUndefined]
    /\ configResult' = OpenAiModelOf(openAiModel)
    /\ UNCHANGED <<apiKey, openAiModel>>
    /\ ConfigUnchanged

setOpenAiModel ==
    /\ \E arg \in ModelArguments :
          /\ openAiModel' = ModelParameter(arg)
          /\ configCall' = [op |-> "setOpenAiModel", arg |-> arg]
    /\ configResult' = JUndefined
    /\ UNCHANGED apiKey
    /\ ConfigUnchanged

NextConfig ==
    \/ getApiKey
    \/ setApiKey
    \/ getOpenAiModel
    \/ setOpenAiModel

SpecConfig == InitConfig /\ [][NextConfig]_vars

(***************************************************************************)
(* The setup wizard (setup.ts), run any number of times on the same        *)
(* configuration store.  What the user types at a prompt is a line: a text *)
(* with the blanks typed before and after it.                              *)
(***************************************************************************)
MaxSetupRuns == 2

\* String.prototype.trim
Trim(input) == input.body

\* the string typed is the empty string
IsEmptyString(input) == input.lead = "" /\ input.body = "" /\ input.trail = ""

\* String.prototype.toLowerCase on the answers of the model
ToLowerCase(text) == IF text = "Y" THEN "y" ELSE text

\* answer.toLowerCase() === 'y': the answer is not trimmed
IsYes(input) == input.lead = "" /\ input.trail = "" /\ ToLowerCase(input.body) = "y"

\* what the user answers to a (y/N) question
Answers ==
    { Typed("", body, "") : body \in {"", "y", "Y", "n"} } \cup {Typed(" ", "y", "")}

\* what the user types as the API key
TypedKeys ==
    { Typed(lead, body, trail) :
        lead \in {"", " "}, body \in {"", "sk-new"}, trail \in {"", " "} }

\* what the user types as the model name
TypedModels ==
    { Typed("", body, trail) : body \in {"", "gpt-4"}, trail \in {"", " "} }

\* validateApiKey with the test made on the key as typed, not trimmed
validateApiKeyUntrimmed(input) == ~IsEmptyString(input)

\* validateApiKey: if (!apiKey.trim()) ... return false
validateApiKey(input) == Trim(input) # ""

InitSetup ==
    /\ Fresh
    /\ SamplerIdle
    /\ cmd = "default" /\ options = NoOptions /\ source = "" /\ target = ""
    /\ apiKey \in {"", "sk-test"}
    /\ openAiModel \in {JUndefined, JStr("gpt-3.5-turbo")}
    /\ configCall = NoConfigCall
    /\ configResult = JUndefined
    /\ setupPc = "start"
    /\ setupExit = 0
    /\ setupRuns = 1
    /\ typed = Typed("", "", "")

\* the wizard's process ends with the given code
SetupExit(code) == setupPc' = "exited" /\ setupExit' = code

SetupUnchanged == RunUnchanged /\ UNCHANGED <<configCall, configResult, setupRuns>>

\* handleApiKeySetup up to its first prompt: the question about updating if a
\* key is stored, the question for the key otherwise
handleApiKeySetup ==
    /\ setupPc = "start"
    /\ setupPc' = IF apiKey # "" THEN "shouldUpdate" ELSE "apiKey"
    /\ UNCHANGED <<apiKey, openAiModel, setupExit, typed>>
    /\ SetupUnchanged

\* the answer to 'Do you want to update your OpenAI API key? (y/N)': without
\* a y handleApiKeySetup returns true and handleModelSelection asks its own
\* question, the model in use being always known
answerShouldUpdate ==
    /\ setupPc = "shouldUpdate"
    /\ \E answer \in Answers :
          /\ typed' = answer
          /\ setupPc' = IF IsYes(answer) THEN "apiKey" ELSE "shouldChange"
    /\ UNCHANGED <<apiKey, openAiModel, setupExit>>
    /\ SetupUnchanged

\* the answer to 'Please enter your OpenAI API key: ', validateApiKey, and
\* setApiKey(apiKey.trim()) or process.exit(1)
answerApiKey ==
    /\ setupPc = "apiKey"
    /\ \E input \in TypedKeys :
          /\ typed' = input
          /\ IF validateApiKey(input)
             THEN /\ apiKey' = Trim(input)
                  /\ setupPc' = "shouldChange"
                  /\ UNCHANGED setupExit
             ELSE /\ SetupExit(1)
                  /\ UNCHANGED apiKey
    /\ UNCHANGED openAiModel
    /\ SetupUnchanged

\* the answer to 'Do you want to change the OpenAI model? (y/N)': without a y
\* the setup is complete
answerShouldChange ==
    /\ setupPc = "shouldChange"
    /\ \E answer \in Answers :
          /\ typed' = answer
          /\ IF IsYes(answer)
             THEN setupPc' = "modelInput" /\ UNCHANGED setupExit
             ELSE SetupExit(0)
    /\ UNCHANGED <<apiKey, openAiModel>>
    /\ SetupUnchanged

\* the answer to 'Model name (press Enter for default): ' and
\* setOpenAiModel(modelInput.trim() || currentModel); the setup is complete
answerModelInput ==
    /\ setupPc = "modelInput"
    /\ \E input \in TypedModels :
          /\ typed' = input
          /\ openAiModel' = IF Trim(input) # "" THEN JStr(Trim(input))
                            ELSE OpenAiModelOf(openAiModel)
    /\ SetupExit(0)
    /\ UNCHANGED apiKey
    /\ SetupUnchanged

\* cai --setup once more, on the store as the last run left it
setupAgain ==
    /\ setupPc = "exited" /\ setupRuns < MaxSetupRuns
    /\ setupPc' = "start"
    /\ setupExit' = 0
    /\ setupRuns' = setupRuns + 1
    /\ UNCHANGED <<apiKey, openAiModel, typed, configCall, configResult>>
    /\ RunUnchanged

NextSetup ==
    \/ handleApiKeySetup
    \/ answerShouldUpdate
    \/ answerApiKey
    \/ answerShouldChange
    \/ answerModelInput
    \/ setupAgain

SpecSetup == InitSetup /\ [][NextSetup]_vars

(***************************************************************************)
(* Properties of the command line flow (specification Spec).               *)
(***************************************************************************)
CommitInvoked == \E i \in 1..Len(gitCalls) : gitCalls[i].op = "commit"

Logged(tag) == \E i \in 1..Len(log) : log[i] = tag

\* the reply text is one JSON.parse rejects
Malformed(r) == ~JSONParse(ContentOrEmpty(r)).ok

\* C1: in the default command, a result with hasSensitiveInfo = true under
\* --commit ends the run with exit code 1 and without any commit, whatever the
\* other flags are, --force included.
C1_SensitiveInfoBlocksCommit ==
    (cmd = "default" /\ result.ready /\ Truthy(result.hasSensitiveInfo) /\ options.commit)
        => (pc = "done" /\ exitCode = 1 /\ ~CommitInvoked)

C1_Witness ==
    /\ cmd = "default" /\ result.ready /\ result.hasSensitiveInfo = JBool(TRUE)
    /\ options.commit /\ options.force
    /\ pc = "done" /\ exitCode = 1 /\ Logged("commit-blocked-sensitive")

\* C2: in the default command under --commit, with no sensitive information
\* reported and hasReviewIssues = true, the commit is invoked if and only if
\* --force is set; without --force the run ends with exit code 1 and no commit.
C2_ReviewIssuesNeedForce ==
    (cmd = "default" /\ result.ready /\ options.commit
        /\ ~Truthy(result.hasSensitiveInfo) /\ Truthy(result.hasReviewIssues))
        => IF options.force
           THEN pc = "commit" \/ (pc = "done" /\ CommitInvoked)
           ELSE pc = "done" /\ exitCode = 1 /\ ~CommitInvoked

C2_Witness ==
    /\ cmd = "default" /\ result.ready /\ options.commit /\ options.force
    /\ ~Truthy(result.hasSensitiveInfo) /\ result.hasReviewIssues = JBool(TRUE)
    /\ pc = "done" /\ CommitInvoked /\ exitCode = 0

\* C3: for every reply whose text does not parse as JSON, parseAIResponse
\* returns (it raises nothing) hasSensitiveInfo = false, hasReviewIssues = false
\* and the raw reply text as the message (the empty text for a null content).
C3_MalformedReplyFallsBack ==
    (cmd = "default" /\ reply.got /\ Malformed(reply))
        => /\ result.ready
           /\ result.hasSensitiveInfo = JBool(FALSE)
           /\ result.hasReviewIssues = JBool(FALSE)
           /\ result.message.fromRaw
           /\ result.message.text = (IF reply.null THEN <<>> ELSE reply.text)

C3_Witness ==
    /\ cmd = "default" /\ reply.got /\ ~reply.null
    /\ reply.text \in MalformedTexts /\ Len(reply.text) > 3
    /\ result.ready /\ result.message.fromRaw /\ result.message.text = reply.text
    /\ pc = "done" /\ exitCode = 0

FindingsReported == Logged("security-warning") \/ Logged("review-feedback")

\* C4 as claimed: for both consumers a reply that is malformed JSON is not
\* fatal: the caller does not fail, the process does not exit with code 1
\* because of it, and no security or review findings are reported.
C4_MalformedReplyNeverFatal ==
    (reply.got /\ Malformed(reply))
        => /\ ~FindingsReported
           /\ IF cmd = "default"
              THEN /\ result.ready
                   /\ ~Truthy(result.hasSensitiveInfo) /\ ~Truthy(result.hasReviewIssues)
                   /\ (exitCode = 1 => CommitInvoked)
              ELSE exitCode = 0 /\ err = <<>>

\* C4 as amended: a malformed reply is not fatal for the commit-message
\* generator (no findings; exit code 1 only when the commit that follows
\* fails), and it is fatal for the review subcommand: reviewCode throws the
\* SyntaxError of JSON.parse (or "No response content" for an empty reply),
\* reports no findings, and the process exits with code 1.
C4_MalformedReplyFatalOnlyInReview ==
    (reply.got /\ Malformed(reply))
        => /\ ~FindingsReported
           /\ IF cmd = "default"
              THEN /\ result.ready
                   /\ ~Truthy(result.hasSensitiveInfo) /\ ~Truthy(result.hasReviewIssues)
                   /\ (exitCode = 1 => CommitInvoked)
              ELSE /\ pc = "done" /\ exitCode = 1
                   /\ err \in {SyntaxError, NoResponseContent}

C4_Witness ==
    /\ cmd = "review" /\ reply.got /\ ~reply.null
    /\ reply.text \in MalformedTexts /\ Len(reply.text) > 3
    /\ pc = "done" /\ exitCode = 1 /\ err = SyntaxError /\ Logged("review-failed")

(***************************************************************************)
(* Properties of the diff parser (specification SpecParse).                *)
(***************************************************************************)
\* the number of lines of diffLines the parsing loop has consumed
Processed == IF idx - 1 <= Len(diffLines) THEN idx - 1 ELSE Len(diffLines)

Keys == MapKeys(changedFiles)

KeySet == { Keys[k] : k \in 1..Len(Keys) }

NewFilePrefix == <<"+", "+", "+", " ", "b", "/">>

\* a header  +++ b/<path>  and the path it names
IsNewFileHeader(line) == StartsWith(line, NewFilePrefix)

HeaderPath(line) == SubSeq(line, Len(NewFilePrefix) + 1, Len(line))

IsFileHeader(line) == StartsWith(line, Plus3)

IsHunkHeader(line) == StartsWith(line, <<"@", "@">>)

\* an added line in the words of the specification: it begins with + and is no
\* +++ header
IsAddedLine(line) == StartsWith(line, <<"+">>) /\ ~IsFileHeader(line)

IsDeletedLine(line) == StartsWith(line, <<"-">>)

Occurrences(seq, x) == Cardinality({ k \in 1..Len(seq) : seq[k] = x })

PositionIn(seq, x) == CHOOSE k \in 1..Len(seq) : seq[k] = x

\* the first consumed header that names path
FirstHeaderOf(path) ==
    CHOOSE i \in 1..Processed :
        /\ IsNewFileHeader(diffLines[i]) /\ HeaderPath(diffLines[i]) = path
        /\ \A j \in 1..(i - 1) :
              ~(IsNewFileHeader(diffLines[j]) /\ HeaderPath(diffLines[j]) = path)

\* C5: changedFiles lists the path of every  +++ b/<path>  header exactly once,
\* in the order in which the paths are first seen in the diff, also when a
\* path is named by more than one header.
C5_ChangedFilesInFirstSeenOrder ==
    \A i \in 1..Processed :
        IsNewFileHeader(diffLines[i]) =>
            LET path == HeaderPath(diffLines[i])
            IN  /\ Occurrences(Keys, path) = 1
                /\ \A j \in 1..Processed :
                      (IsNewFileHeader(diffLines[j])
                          /\ FirstHeaderOf(path) < FirstHeaderOf(HeaderPath(diffLines[j])))
                      => PositionIn(Keys, path) < PositionIn(Keys, HeaderPath(diffLines[j]))

C5_Witness ==
    /\ pc = "api"
    /\ \E i, j, k \in 1..Len(diffLines) :
          /\ i < j /\ j < k
          /\ diffLines[i] = HeaderA /\ diffLines[j] = HeaderB /\ diffLines[k] = HeaderA
    /\ Keys = << <<"a">>, <<"b">> >>

\* line i lies in a hunk: a hunk header precedes it with no other header between
InHunk(i) ==
    \E j \in 1..(i - 1) :
        /\ IsHunkHeader(diffLines[j])
        /\ \A m \in (j + 1)..(i - 1) :
              ~IsHunkHeader(diffLines[m]) /\ ~IsFileHeader(diffLines[m])

HunkOf(i) ==
    CHOOSE j \in 1..(i - 1) :
        IsHunkHeader(diffLines[j]) /\ \A m \in (j + 1)..(i - 1) : ~IsHunkHeader(diffLines[m])

\* c of  @@ -a,b +c,d @@ : the digits that follow the first +
NewSideStart(line) ==
    LET plus == CHOOSE q \in 1..Len(line) :
                    line[q] = "+" /\ \A r \in 1..(q - 1) : line[r] # "+"
    IN  ParseInt(SubSeq(line, plus + 1, DigitsEnd(line, plus + 1)))

\* the added and context lines between the hunk header j and line i
LinesCounted(j, i) == Cardinality({ m \in (j + 1)..(i - 1) : ~IsDeletedLine(diffLines[m]) })

\* C6: under a known current file, an added line that follows the hunk header
\* @@ -a,b +c,d @@ after k added or context lines (and any number of deleted
\* lines) is recorded with the number c + k; the scenario of a.txt with hunk
\* @@ -1,3 +1,4 @@, three context lines and one added line gives {4}.
C6_AddedLineNumberIsStartPlusCount ==
    [][ /\ (pc = "parse" /\ idx <= Len(diffLines) /\ IsAddedLine(diffLines[idx])
               /\ currentFile # <<>> /\ InHunk(idx))
           => LET j == HunkOf(idx)
                  n == NewSideStart(diffLines[j]) + LinesCounted(j, idx)
              IN  /\ MapHas(changedFiles', currentFile)
                  /\ MapGet(changedFiles', currentFile)
                         = MapGet(changedFiles, currentFile) \cup {n}
        /\ (diff = ScenarioDiff /\ pc = "parse" /\ pc' = "content")
           => changedFiles' = << [key |-> ScenarioPath, val |-> {4}] >>
      ]_vars

C6_Witness ==
    /\ pc = "api" /\ diff = TwoFileDiff
    /\ MapGet(changedFiles, <<"a">>) = {13}
    /\ MapGet(changedFiles, <<"b">>) = {12, 13}

\* the paths of the file headers consumed so far: what follows the sixth character
HeaderPathsSeen ==
    { Slice(diffLines[i], 6) : i \in { h \in 1..Processed : IsFileHeader(diffLines[h]) } }

\* the section that header i opens holds an added line
SectionHasAddedLine(i) ==
    \E j \in (i + 1)..Len(diffLines) :
        /\ IsAddedLine(diffLines[j])
        /\ \A m \in (i + 1)..(j - 1) : ~IsFileHeader(diffLines[m])

\* C7 as claimed: the returned changedFiles holds exactly the paths of the +++
\* headers whose section has at least one added line; a section of deletions
\* only (a deleted file with +++ /dev/null included) contributes no entry.
C7_OnlyFilesWithAddedLines ==
    pc = "api" =>
        KeySet = { Slice(diffLines[i], 6) :
                     i \in { h \in 1..Len(diffLines) :
                               IsFileHeader(diffLines[h]) /\ SectionHasAddedLine(h) } }

\* C7 as amended: changedFiles holds, once each, exactly the paths of the +++
\* headers (the text after the sixth character), whether or not the section has
\* an added line: a section of deletions only contributes an entry with no line
\* numbers, and the header +++ /dev/null contributes the entry ev/null.
C7_EveryHeaderIsAnEntry ==
    /\ KeySet = HeaderPathsSeen
    /\ Cardinality(KeySet) = Len(Keys)

C7_Witness ==
    /\ pc = "api"
    /\ diffLines = <<HeaderDevNull, HunkHeader, DeletedLine, DeletedLine, <<>> >>
    /\ changedFiles = << [key |-> <<"e", "v", "/", "n", "u", "l", "l">>, val |-> {}] >>

(***************************************************************************)
(* The unified diff format, read hunk by hunk: the counts b and d of       *)
(*   @@ -a,b +c,d @@                                                       *)
(* say how many old-side and new-side lines the hunk body has, so a body   *)
(* line is classified by its first character alone.                        *)
(***************************************************************************)
\* [ok, oldCount, newStart, newCount] of a hunk header; a count left out is 1
HunkRanges(line) ==
    LET none == [ok |-> FALSE, oldCount |-> 0, newStart |-> 0, newCount |-> 0]
        a1   == DigitsEnd(line, 5)
        hasB == a1 + 1 <= Len(line) /\ line[a1 + 1] = ","
        b1   == IF hasB THEN DigitsEnd(line, a1 + 2) ELSE a1
        c1   == DigitsEnd(line, b1 + 3)
        hasD == c1 + 1 <= Len(line) /\ line[c1 + 1] = ","
        d1   == IF hasD THEN DigitsEnd(line, c1 + 2) ELSE c1
    IN  IF ~StartsWith(line, HunkPrefix) \/ a1 < 5 THEN none
        ELSE IF hasB /\ b1 < a1 + 2 THEN none
        ELSE IF ~(b1 + 2 <= Len(line) /\ line[b1 + 1] = " " /\ line[b1 + 2] = "+") THEN none
        ELSE IF c1 < b1 + 3 THEN none
        ELSE IF hasD /\ d1 < c1 + 2 THEN none
        ELSE IF SubSeq(line, d1 + 1, d1 + 3) # <<" ", "@", "@">> THEN none
        ELSE [ok       |-> TRUE,
              oldCount |-> IF hasB THEN ParseInt(SubSeq(line, a1 + 2, b1)) ELSE 1,
              newStart |-> ParseInt(SubSeq(line, b1 + 3, c1)),
              newCount |-> IF hasD THEN ParseInt(SubSeq(line, c1 + 2, d1)) ELSE 1]

RefStart ==
    [ok |-> TRUE, file |-> <<>>, files |-> {}, oldLeft |-> 0, newLeft |-> 0,
     newNo |-> 0, added |-> {}]

\* one line of a well-formed diff: inside a hunk body while lines are owed
RefStep(r, line, isLast) ==
    LET bad == [r EXCEPT !.ok = FALSE]
    IN  IF ~r.ok THEN r
        ELSE IF r.oldLeft > 0 \/ r.newLeft > 0
        THEN IF StartsWith(line, <<" ">>) /\ r.oldLeft > 0 /\ r.newLeft > 0
             THEN [r EXCEPT !.oldLeft = @ - 1, !.newLeft = @ - 1, !.newNo = @ + 1]
             ELSE IF StartsWith(line, <<"+">>) /\ r.newLeft > 0
             THEN [r EXCEPT !.newLeft = @ - 1, !.newNo = @ + 1,
                            !.added = @ \cup {<<r.file, r.newNo>>}]
             ELSE IF StartsWith(line, <<"-">>) /\ r.oldLeft > 0
             THEN [r EXCEPT !.oldLeft = @ - 1]
             ELSE bad
        ELSE IF StartsWith(line, <<"-", "-", "-", " ">>) THEN r
        ELSE IF IsNewFileHeader(line) /\ HeaderPath(line) # <<>>
                   /\ HeaderPath(line) \notin r.files
        THEN [r EXCEPT !.file = HeaderPath(line), !.files = @ \cup {HeaderPath(line)}]
        ELSE IF IsHunkHeader(line) /\ HunkRanges(line).ok /\ r.file # <<>>
        THEN [r EXCEPT !.oldLeft = HunkRanges(line).oldCount,
                       !.newLeft = HunkRanges(line).newCount,
                       !.newNo   = HunkRanges(line).newStart]
        ELSE IF line = <<>> /\ isLast THEN r
        ELSE bad

RECURSIVE RefParseFrom(_, _, _)
RefParseFrom(r, lines, i) ==
    IF i > Len(lines) THEN r
    ELSE RefParseFrom(RefStep(r, lines[i], i = Len(lines)), lines, i + 1)

RefParse(lines) == RefParseFrom(RefStart, lines, 1)

\* a well-formed unified diff: file sections of  +++ b/<path>  headers, each
\* path in one section, every hunk body as long as its header says
WellFormed(lines) ==
    LET r == RefParse(lines)
    IN  r.ok /\ r.oldLeft = 0 /\ r.newLeft = 0 /\ r.files # {}

\* the (file, line number) pairs that changedFiles holds
RecordedPairs ==
    UNION { { <<changedFiles[k].key, n>> : n \in changedFiles[k].val } :
              k \in 1..Len(changedFiles) }

\* C8 as claimed: for a well-formed unified diff, whatever its content lines
\* say, the line set of each file is exactly the set of new-file line numbers
\* of that file's added lines, recorded under the file of the latest header,
\* and no other line changes the current file or is recorded.
C8_LineSetsAreTheAddedLines ==
    (pc = "api" /\ WellFormed(diffLines)) =>
        /\ RecordedPairs = RefParse(diffLines).added
        /\ KeySet = RefParse(diffLines).files

\* the diff of  +++ b/a, @@ -3,1 +12,2 @@, one context line and the added
\* line whose text is  ++ b/b  has been parsed
C8_FailingInputParsed ==
    /\ pc = "api"
    /\ diffLines = <<HeaderA, HunkHeader, ContextLine, HeaderB, <<>> >>
    /\ WellFormed(diffLines)
    /\ RefParse(diffLines).added = { << <<"a">>, 13 >> }
    /\ changedFiles = << [key |-> <<"a">>, val |-> {}], [key |-> <<"b">>, val |-> {}] >>

\* away from content lines that begin with ++, the parser and the format agree
C8_AgreesWithoutPlusPlusContent ==
    (pc = "api" /\ WellFormed(diffLines)
        /\ Cardinality({ i \in 1..Len(diffLines) : IsFileHeader(diffLines[i]) })
               = Cardinality(RefParse(diffLines).files))
    => /\ RecordedPairs = RefParse(diffLines).added
       /\ KeySet = RefParse(diffLines).files

(***************************************************************************)
(* Failures of getSmartDiff (specification Spec).                          *)
(***************************************************************************)
LastGitCall == gitCalls[Len(gitCalls)]

\* the last call of the tool was the given comparison and it succeeded or not
LastDiffWas(kind, ok) ==
    /\ gitCalls # <<>>
    /\ LastGitCall.op = "diff" /\ LastGitCall.ok = ok
    /\ LastGitCall.args # StatArgs
    /\ Comparison(LastGitCall.args) = kind

ContentFetched == \E i \in 1..Len(gitCalls) : gitCalls[i].op = "show"

\* C9: when the branch-pair diff is empty, or no branch pair is given and the
\* staged diff and then the unstaged diff are both empty, getSmartDiff fails
\* with "No changes found in the repository."; no file content is fetched and
\* nothing is returned (no statistics, no request to the API).
C9_EmptyDiffFailsWithNoChanges ==
    ((LastDiffWas("range", TRUE) \/ LastDiffWas("unstaged", TRUE)) /\ diff = <<>>)
    => /\ pc = "done"
       /\ err = NoChangesMessage
       /\ exitCode = 1
       /\ ~ContentFetched
       /\ fileContents = <<>> /\ stats = ""
       /\ apiCalls = 0 /\ ~result.ready

C9_Witness ==
    /\ cmd = "default" /\ pc = "done"
    /\ Len(gitCalls) = 2
    /\ Comparison(gitCalls[1].args) = "staged" /\ gitCalls[1].ok
    /\ LastDiffWas("unstaged", TRUE)
    /\ diff = <<>>
    /\ err = NoChangesMessage

C9_WitnessBranchPair ==
    /\ cmd = "review" /\ pc = "done"
    /\ LastDiffWas("range", TRUE)
    /\ diff = <<>>
    /\ err = NoChangesMessage

HasSuffix(msg, suffix) ==
    /\ Len(suffix) <= Len(msg)
    /\ SubSeq(msg, Len(msg) - Len(suffix) + 1, Len(msg)) = suffix

\* C10: when the diff of the range source...target fails, the error of
\* getSmartDiff names the source and the target and carries the text of the
\* tool's error, and the review command exits with code 1 without a request
\* to the API.
C10_FailedRangeDiffNamesBothBranches ==
    (cmd = "review" /\ LastDiffWas("range", FALSE))
    => /\ pc = "done"
       /\ exitCode = 1
       /\ apiCalls = 0
       /\ Includes(err, source) /\ Includes(err, target)
       /\ HasSuffix(err, GitErrorText)
       /\ LastGitCall.args[Len(LastGitCall.args)] = <<source, "...", target>>

C10_Witness ==
    /\ cmd = "review" /\ source = "main" /\ target = "feature-x"
    /\ LastDiffWas("range", FALSE)
    /\ pc = "done" /\ exitCode = 1
    /\ Includes(err, "main") /\ Includes(err, "feature-x")

(***************************************************************************)
(* The order of the calls of getSmartDiff (specification Spec).            *)
(***************************************************************************)
\* the step appends a call of the tool
Calls(op) == Len(gitCalls') = Len(gitCalls) + 1 /\ gitCalls'[Len(gitCalls')].op = op

CallsDiff(kind) ==
    /\ Calls("diff")
    /\ gitCalls'[Len(gitCalls')].args # StatArgs
    /\ Comparison(gitCalls'[Len(gitCalls')].args) = kind

\* the step in which the unstaged diff becomes the diff that is used
FallbackAdopted == pc = "diffUnstaged" /\ CallsDiff("unstaged") /\ diff' # <<>>

\* the unstaged diff is asked for only after the staged diff came back empty,
\* and the staged diff is the first diff asked for
C11_UnstagedOnlyAfterEmptyStaged ==
    [][ /\ CallsDiff("unstaged") => (LastDiffWas("staged", TRUE) /\ diff = <<>>)
        /\ CallsDiff("staged") =>
              \A i \in 1..Len(gitCalls) : gitCalls[i].op # "diff"
      ]_vars

\* C11: without a branch pair the staged diff is computed first and the
\* unstaged diff only if the staged diff is empty; whenever the unstaged diff
\* is the one used, a warning about the fallback is surfaced in that step and
\* no error is raised.
C11_FallbackSurfacesWarning ==
    [][ /\ CallsDiff("unstaged") => (LastDiffWas("staged", TRUE) /\ diff = <<>>)
        /\ CallsDiff("staged") =>
              \A i \in 1..Len(gitCalls) : gitCalls[i].op # "diff"
        /\ FallbackAdopted => (log' # log /\ err' = <<>> /\ pc' # "done")
      ]_vars

\* the default command without --stage took the unstaged diff and went on to
\* the API with nothing printed but the note about staged changes
C11_FallbackUsedSilently ==
    /\ cmd = "default" /\ ~options.stage /\ ~options.debug
    /\ pc = "api"
    /\ Len(gitCalls) >= 2
    /\ Comparison(gitCalls[1].args) = "staged" /\ gitCalls[1].ok
    /\ gitCalls[2].args = BaseArgs /\ gitCalls[2].ok
    /\ diff = ScenarioDiff
    /\ log = <<"note-staged-only">>

\* the call whose answer is the payload's diff text: the last successful diff
\* that is not the --stat call
IsDiffTextCall(i) ==
    /\ gitCalls[i].op = "diff" /\ gitCalls[i].ok
    /\ gitCalls[i].args # StatArgs

DiffTextCall ==
    CHOOSE i \in 1..Len(gitCalls) :
        IsDiffTextCall(i) /\ \A j \in (i + 1)..Len(gitCalls) : ~IsDiffTextCall(j)

\* C12: the --stat summary of the payload is computed for the comparison the
\* payload's diff text is computed for: staged, unstaged (the fallback) or the
\* range of the branch pair.
C12_StatsForSameComparison ==
    stats # "" => stats = Comparison(gitCalls[DiffTextCall].args)

\* after --stage the diff text is the staged diff, the summary is the one of
\* the working tree against the index
C12_StagedDiffUnstagedStats ==
    /\ cmd = "default" /\ options.stage
    /\ pc = "api"
    /\ gitCalls[1].op = "add"
    /\ Comparison(gitCalls[DiffTextCall].args) = "staged"
    /\ gitCalls[Len(gitCalls)].args = StatArgs
    /\ stats = "unstaged"

\* the summary agrees with the diff text only when the fallback was used
C12_StatsAgreeOnlyOnFallback ==
    stats # "" => (stats = Comparison(gitCalls[DiffTextCall].args)
                      <=> Comparison(gitCalls[DiffTextCall].args) = "unstaged")

(***************************************************************************)
(* Properties of the sampler (specification SpecSample).                   *)
(***************************************************************************)
Sampled == sPc = "returned" /\ sShow.ok /\ ContentLength(sShow.lines) >= MAX_FILE_SIZE

\* the window of the changed line n in a file of nLines lines, in 1-based line
\* numbers: the line, the 25 lines before it and the 25 lines after it
WindowAround(n, nLines) == { i \in 1..nLines : n - 25 <= i /\ i <= n + 25 }

WindowUnion == UNION { WindowAround(n, Len(sShow.lines)) : n \in Range(sDiffLines) }

IsExcerpt(c) == ~c.null /\ ~c.full

\* the file lines of an excerpt, without the markers
FileLinesOf(c) == SelectSeq(c.pieces, LAMBDA piece : ~piece.marker)

\* C13: for a file at or above the size threshold whose union of +-25-line
\* windows around the changed lines has more than 100 lines the sampler
\* returns nothing, and an excerpt never has more than 100 file lines.
C13_OverBudgetYieldsNothing ==
    Sampled =>
        /\ Cardinality(WindowUnion) > 100 => sReturn.null
        /\ IsExcerpt(sReturn) => Len(FileLinesOf(sReturn)) <= 100

\* changed lines 26 and 130 of the file of 160 lines: the windows 1..51 and
\* 105..155 hold 102 lines, and an excerpt of 100 lines is returned
C13_ExcerptReturnedOverBudget ==
    /\ Sampled /\ sShow = BigFile
    /\ Range(sDiffLines) = {26, 130}
    /\ Cardinality(WindowUnion) = 102
    /\ IsExcerpt(sReturn)
    /\ Len(FileLinesOf(sReturn)) = 100

\* the budget is applied to the lines the sampler itself selected
C13_BudgetOnSelectedLines ==
    Sampled =>
        /\ Len(sRelevant) > MAX_LINES_CONTEXT <=> sReturn.null
        /\ IsExcerpt(sReturn) => Len(FileLinesOf(sReturn)) = Len(sRelevant)

\* C14: two calls of the sampler with the same committed content and the same
\* changed lines return the same result (the same excerpt, the same full
\* content, or nothing both times), in whatever order the set holds the
\* changed line numbers.
C14_SamplingIsDeterministic ==
    (sPc = "returned" /\ sCalls = 2) =>
        /\ Range(sFirst.diffLines) = Range(sDiffLines)
        /\ sReturn = sFirst.value

C14_Witness ==
    /\ sPc = "returned" /\ sCalls = 2
    /\ sShow = BigFile
    /\ sFirst.diffLines = <<26, 130>> /\ sDiffLines = <<130, 26>>
    /\ IsExcerpt(sReturn)
    /\ sReturn = sFirst.value
    /\ \E i \in 1..Len(sReturn.pieces) : sReturn.pieces[i].marker

\* the lines the sampler selected, as 1-based line numbers of the file
SelectedLineNumbers == { i + 1 : i \in Range(sRelevant) }

\* C19: for a file at or above the size threshold the selected lines are the
\* union, over every changed line number n, of the line n, the 25 lines before
\* it and the 25 lines after it, clamped to the first and the last line.
C19_SelectedLinesAreWindowUnion ==
    Sampled => SelectedLineNumbers = WindowUnion

\* changed line 26 of the file of 160 lines: lines 2..51 are selected, line 1,
\* the 25th line before the changed line, is not
C19_WindowMissesLineBefore ==
    /\ Sampled /\ sShow = BigFile
    /\ sDiffLines = <<26>>
    /\ WindowUnion = 1..51
    /\ SelectedLineNumbers = 2..51

\* what is selected: the changed line, the 24 lines before it and the 25 lines
\* after it
C19_SelectedLinesAreShiftedWindows ==
    Sampled =>
        SelectedLineNumbers =
            UNION { { i \in 1..Len(sShow.lines) : n - 24 <= i /\ i <= n + 25 } :
                      n \in Range(sDiffLines) }

\* the 0-based index of the file line an emitted piece carries (the universe's
\* files above the threshold have no two lines with the same text)
LineIndexOf(piece) ==
    (CHOOSE i \in 1..Len(sShow.lines) : sShow.lines[i].text = piece.text) - 1

\* C20: in an excerpt the selected lines appear in strictly ascending order,
\* each once; the skip marker stands between two consecutive emitted lines
\* exactly when their indices are not adjacent, and never before the first
\* or after the last emitted line.
C20_ExcerptAscendingWithMarkersAtGaps ==
    (Sampled /\ IsExcerpt(sReturn)) =>
        LET pieces == sReturn.pieces
            emitted == FileLinesOf(sReturn)
            n == Len(pieces)
        IN  /\ Len(emitted) = Len(sRelevant)
            /\ { LineIndexOf(emitted[k]) : k \in 1..Len(emitted) } = Range(sRelevant)
            /\ \A k \in 1..(Len(emitted) - 1) :
                  LineIndexOf(emitted[k]) < LineIndexOf(emitted[k + 1])
            /\ n > 0 => (~pieces[1].marker /\ ~pieces[n].marker)
            /\ \A p \in 1..(n - 1) :
                  /\ (~pieces[p].marker /\ ~pieces[p + 1].marker)
                         => LineIndexOf(pieces[p + 1]) = LineIndexOf(pieces[p]) + 1
                  /\ pieces[p].marker
                         => /\ p > 1 /\ ~pieces[p - 1].marker /\ ~pieces[p + 1].marker
                            /\ LineIndexOf(pieces[p + 1]) > LineIndexOf(pieces[p - 1]) + 1

C20_Witness ==
    /\ Sampled /\ sShow = BigFile
    /\ sDiffLines = <<80, 26>>
    /\ IsExcerpt(sReturn)
    /\ Len(sReturn.pieces) = 101
    /\ sReturn.pieces[51].marker
    /\ LineIndexOf(sReturn.pieces[50]) = 50 /\ LineIndexOf(sReturn.pieces[52]) = 55
    /\ Cardinality({ p \in 1..101 : sReturn.pieces[p].marker }) = 1

\* adjacent windows are joined without a marker
C20_WitnessAdjacent ==
    /\ Sampled /\ sShow = BigFile
    /\ Range(sDiffLines) = {26, 76}
    /\ IsExcerpt(sReturn)
    /\ Len(sReturn.pieces) = 100
    /\ \A p \in 1..100 : ~sReturn.pieces[p].marker

(***************************************************************************)
(* Properties of the configuration store (specification SpecConfig).       *)
(***************************************************************************)
\* a model preference is stored: the store holds a non-empty name
PreferenceStored == openAiModel # JUndefined /\ openAiModel # JStr("")

\* C16: getOpenAiModel returns "gpt-4o" when no model preference is stored
\* (nothing, or the empty name) and the stored name otherwise; after
\* setOpenAiModel(m) with a non-empty m it returns m; neither function changes
\* the stored API credential.
C16_ModelPreferenceRoundTrip ==
    [][ /\ configCall'.op = "getOpenAiModel"
           => /\ configResult' = IF PreferenceStored THEN openAiModel ELSE JStr("gpt-4o")
              /\ apiKey' = apiKey /\ openAiModel' = openAiModel
        /\ (configCall'.op = "setOpenAiModel" /\ configCall'.arg \notin {JUndefined, JStr("")})
           => /\ OpenAiModelOf(openAiModel') = configCall'.arg
              /\ apiKey' = apiKey
        /\ (configCall.op = "setOpenAiModel" /\ configCall.arg \notin {JUndefined, JStr("")}
               /\ configCall'.op = "getOpenAiModel")
           => configResult' = configCall.arg
        /\ configCall'.op = "setOpenAiModel" => apiKey' = apiKey
      ]_vars

C16_Witness ==
    /\ configCall.op = "getOpenAiModel"
    /\ openAiModel = JStr("gpt-4")
    /\ configResult = JStr("gpt-4")
    /\ apiKey = "sk-new"

\* with nothing stored the default is returned
C16_WitnessDefault ==
    /\ configCall.op = "getOpenAiModel"
    /\ openAiModel = JUndefined
    /\ configResult = JStr("gpt-4o")

(***************************************************************************)
(* Errors and the order of the steps (specification Spec).                 *)
(***************************************************************************)
FailedCalls == { i \in 1..Len(gitCalls) : ~gitCalls[i].ok }

\* an error has been raised: by the tool, or one that reached the catch block
\* of the command (the missing credential, the API, the reply of a review)
ErrorRaised == FailedCalls # {} \/ err # <<>>

CommitCalls == { i \in 1..Len(gitCalls) : gitCalls[i].op = "commit" }

\* C15 as claimed: every error raised while staging, diffing, fetching file
\* content, checking the credential, calling the API or committing leads to
\* exit code 1, and the default command invokes no commit after it.
C15_EveryErrorExitsWithOne ==
    (pc = "done" /\ ErrorRaised) =>
        /\ exitCode = 1
        /\ \A i \in CommitCalls : ~gitCalls[i].ok /\ i = Len(gitCalls)

\* C15 as amended: an error raised while staging, diffing (the --stat call
\* included), checking the credential, calling the API, reading the reply of a
\* review or committing ends the run at once with exit code 1 and no commit
\* follows it; a failure of git show while file content is fetched is not an
\* error of the run: the file gets no content and the run goes on.
C15_ErrorsButFetchExitWithOne ==
    /\ ({ i \in FailedCalls : gitCalls[i].op # "show" } # {} \/ err # <<>>)
       => /\ pc = "done" /\ exitCode = 1
          /\ err # <<>>
          /\ \A i \in FailedCalls : gitCalls[i].op # "show" => i = Len(gitCalls)
          /\ \A i \in CommitCalls : ~gitCalls[i].ok /\ i = Len(gitCalls)
    /\ (gitCalls # <<>> /\ gitCalls[Len(gitCalls)].op = "show"
           /\ ~gitCalls[Len(gitCalls)].ok)
       => (pc \in {"content", "show"} /\ err = <<>> /\ exitCode = 0)

\* --commit: the reply was parsed, git commit failed, the run exits with 1
C15_Witness ==
    /\ cmd = "default" /\ options.commit
    /\ pc = "done" /\ exitCode = 1
    /\ gitCalls # <<>>
    /\ gitCalls[Len(gitCalls)].op = "commit" /\ ~gitCalls[Len(gitCalls)].ok
    /\ err = GitErrorText
    /\ Logged("error")

\* git show failed for a file, the run went on and ended with exit code 0
C15_FetchFailureExitsWithZero ==
    /\ pc = "done" /\ exitCode = 0
    /\ \E i \in FailedCalls : gitCalls[i].op = "show"
    /\ err = <<>>

AddCalls == { i \in 1..Len(gitCalls) : gitCalls[i].op = "add" }

DiffCalls == { i \in 1..Len(gitCalls) : gitCalls[i].op = "diff" }

StageFlag == cmd = "default" /\ options.stage

\* C17: with the stage flag, git add . has completed before any diff is
\* computed; without it, no staging is invoked at any point of the run.
C17_StagingPrecedesEveryDiff ==
    /\ StageFlag =>
          /\ AddCalls \subseteq {1}
          /\ \A i \in DiffCalls : 1 \in AddCalls /\ gitCalls[1].ok /\ i > 1
    /\ ~StageFlag => AddCalls = {}

C17_Witness ==
    /\ StageFlag
    /\ Len(gitCalls) >= 3
    /\ gitCalls[1] = GitCall("add", << <<".">> >>, TRUE)
    /\ gitCalls[2].op = "diff" /\ Comparison(gitCalls[2].args) = "staged"
    /\ gitCalls[3].op = "diff" /\ gitCalls[3].args = BaseArgs

C17_WitnessNoFlag ==
    /\ ~StageFlag /\ pc = "done" /\ exitCode = 0
    /\ DiffCalls # {} /\ AddCalls = {}

ShowCalls == SelectSeq(gitCalls, LAMBDA c : c.op = "show")

\* what git.show is called with for the k-th entry of changedFiles
ShowArgs(k) == << <<"HEAD:">> \o changedFiles[k].key >>

\* C18: the steps of an invocation are sequential: the diff is obtained
\* first, file content is then fetched for one changed file at a time in the
\* order of changedFiles, never with two fetches in flight, and the API request
\* is issued only after every fetch has finished; there is at most one API
\* request and at most one commit, and the commit follows the parsing of the
\* API reply.
C18_StepsAreSequential ==
    /\ Cardinality(inFlight) <= 1
    /\ inFlight # {} => (pc = "show" /\ inFlight = {changedFiles[ci].key})
    /\ Len(ShowCalls) = ci - 1
    /\ \A k \in 1..Len(ShowCalls) : ShowCalls[k].args = ShowArgs(k)
    /\ \A i, j \in 1..Len(gitCalls) :
          (gitCalls[i].op = "show" /\ IsDiffTextCall(j)) => j < i
    /\ (inFlight # {} \/ Len(ShowCalls) > 0) => (diff # <<>> /\ idx > Len(diffLines))
    /\ apiCalls <= 1
    /\ apiCalls = 1 => (inFlight = {} /\ Len(ShowCalls) = Len(changedFiles))
    /\ Cardinality(CommitCalls) <= 1
    /\ CommitCalls # {} =>
          /\ apiCalls = 1 /\ reply.got /\ result.ready
          /\ CommitCalls = {Len(gitCalls)}

C18_Witness ==
    /\ cmd = "default" /\ pc = "done" /\ exitCode = 0
    /\ diff = TwoFileDiff
    /\ Len(ShowCalls) = 2
    /\ ShowCalls[1].args = << <<"HEAD:", "a">> >>
    /\ ShowCalls[2].args = << <<"HEAD:", "b">> >>
    /\ apiCalls = 1
    /\ Cardinality(CommitCalls) = 1


(***************************************************************************)
(* More properties of the sampler (specification SpecSample).              *)
(***************************************************************************)
\* the call has returned for a committed file that is not empty and shorter
\* than 50 KiB
SmallFileSampled ==
    /\ sPc = "returned" /\ sShow.ok
    /\ ContentLength(sShow.lines) > 0
    /\ ContentLength(sShow.lines) < 50 * 1024

\* C21: for committed content that is not empty and shorter than 50 KiB the
\* sampler returns the content itself, in full, whatever the changed lines are
\* (none, or line numbers beyond the end of the file).
C21_SmallFileReturnedInFull ==
    SmallFileSampled =>
        sReturn = [null |-> FALSE, full |-> TRUE, pieces |-> sShow.lines]

\* one character under the threshold, with a changed line beyond the end
C21_Witness ==
    /\ SmallFileSampled
    /\ sShow = BelowThresholdFile
    /\ 200 \in Range(sDiffLines)
    /\ sReturn.full /\ sReturn.pieces = BelowThresholdFile.lines

\* a small file and no changed line at all
C21_WitnessNoChangedLines ==
    /\ SmallFileSampled
    /\ sShow = SmallFile
    /\ sDiffLines = <<>>
    /\ sReturn.full

(***************************************************************************)
(* The content loop of getSmartDiff (specification Spec).                  *)
(***************************************************************************)
\* C22: when git show fails for a changed file (it is not at HEAD), the
\* sampler returns nothing and no error is raised: the file stays in
\* changedFiles and gets no entry of the sampled contents, and the content loop
\* goes on with the next file, so that getSmartDiff can still return.
C22_FailedFetchIsSilent ==
    \A k \in 1..Len(ShowCalls) :
        ~ShowCalls[k].ok =>
            /\ k <= Len(changedFiles)
            /\ ShowCalls[k].args = ShowArgs(k)
            /\ ~MapHas(fileContents, changedFiles[k].key)
            /\ ci > k
            /\ (gitCalls[Len(gitCalls)].op = "show" /\ k = Len(ShowCalls)) =>
                  /\ pc \in {"content", "show"}
                  /\ err = <<>> /\ exitCode = 0
                  /\ ci = k + 1

\* two changed files, a is not at HEAD and b is: getSmartDiff has returned
\* the payload with both files and the content of b alone
C22_Witness ==
    /\ pc = "api"
    /\ diff = TwoFileDiff
    /\ Len(ShowCalls) = 2
    /\ ~ShowCalls[1].ok /\ ShowCalls[2].ok
    /\ MapKeys(changedFiles) = << <<"a">>, <<"b">> >>
    /\ MapKeys(fileContents) = << <<"b">> >>
    /\ err = <<>>

\* getSmartDiff has returned its payload
PayloadReturned == stats # ""

\* C23 as claimed: in every returned payload the keys of the sampled contents
\* are files of changedFiles in the relative order they have there, a file is
\* a key exactly if its sampling returned something, and no key maps to the
\* empty string.
C23_ContentKeysFollowChangedFiles ==
    PayloadReturned =>
        LET keys  == MapKeys(Payload.fileContents)
            files == Payload.changedFiles
        IN  /\ \A i \in 1..Len(keys) : Occurrences(files, keys[i]) = 1
            /\ \A i, j \in 1..Len(keys) :
                  i < j => PositionIn(files, keys[i]) < PositionIn(files, keys[j])
            /\ \A k \in 1..Len(files) :
                  MapHas(Payload.fileContents, files[k]) <=> SampleTruthy(contentOf[k])
            /\ \A i \in 1..Len(keys) : SampleLength(Payload.fileContents[i].val) > 0

\* the diff names b and then 7 and both are sampled: changedFiles is [b, 7]
\* and the keys of the sampled contents are 7, b
C23_NumberedFileComesFirst ==
    /\ PayloadReturned
    /\ diff = NumberedFileDiff
    /\ Payload.changedFiles = << <<"b">>, <<"7">> >>
    /\ MapKeys(Payload.fileContents) = << <<"7">>, <<"b">> >>

\* what holds of every payload: the keys are, once each, the files whose
\* sampling returned a non-empty string, and the keys that are not array
\* indices are in the relative order of changedFiles
C23_ContentKeysButIndicesFollow ==
    PayloadReturned =>
        LET keys  == MapKeys(Payload.fileContents)
            files == Payload.changedFiles
        IN  /\ \A i \in 1..Len(keys) :
                  Occurrences(files, keys[i]) = 1 /\ Occurrences(keys, keys[i]) = 1
            /\ \A i, j \in 1..Len(keys) :
                  (i < j /\ ~IsArrayIndex(keys[i]) /\ ~IsArrayIndex(keys[j]))
                      => PositionIn(files, keys[i]) < PositionIn(files, keys[j])
            /\ \A k \in 1..Len(files) :
                  MapHas(Payload.fileContents, files[k]) <=> SampleTruthy(contentOf[k])
            /\ \A i \in 1..Len(keys) : SampleLength(Payload.fileContents[i].val) > 0

\* b is above the size threshold and has no added line: its excerpt is the
\* empty string and b is no key
C23_EmptyExcerptIsNoKey ==
    /\ PayloadReturned
    /\ diff = NumberedFileDiff
    /\ ~contentOf[1].null /\ SampleLength(contentOf[1]) = 0
    /\ MapKeys(Payload.fileContents) = << <<"7">> >>

(***************************************************************************)
(* More properties of the diff parser (specification SpecParse).           *)
(***************************************************************************)
\* a context line in the words of the specification: any line that is no
\* header, no added line and no deleted line
IsContextLine(line) ==
    /\ ~IsFileHeader(line) /\ ~IsHunkHeader(line)
    /\ ~IsAddedLine(line) /\ ~IsDeletedLine(line)

\* the parsing loop is about to consume a line
Parsing == pc = "parse" /\ idx <= Len(diffLines)

RECURSIVE CounterBefore(_)
\* currentLine when line i of the diff is reached, counted from the lines
\* before it as the claim counts: from the last hunk header, or from 0
CounterBefore(i) ==
    IF i <= 1 THEN 0
    ELSE IF IsHunkHeader(diffLines[i - 1]) THEN NewSideStart(diffLines[i - 1])
    ELSE IF IsAddedLine(diffLines[i - 1]) \/ IsContextLine(diffLines[i - 1])
    THEN CounterBefore(i - 1) + 1
    ELSE CounterBefore(i - 1)

\* C24: while the diff is parsed the line counter increases by exactly one on
\* each added line and each context line, is unchanged by each deleted line,
\* and takes any other value only at an @@ hunk header, where it becomes the
\* header's new-side start line; hence the numbers recorded within one hunk
\* are strictly increasing.
C24_CounterFollowsNewSide ==
    [][ Parsing =>
           LET line == diffLines[idx]
           IN  /\ (IsAddedLine(line) \/ IsContextLine(line))
                     => currentLine' = currentLine + 1
               /\ IsDeletedLine(line) => currentLine' = currentLine
               /\ IsHunkHeader(line) => currentLine' = NewSideStart(line)
               /\ currentLine' \notin {currentLine, currentLine + 1} => IsHunkHeader(line)
               /\ currentLine = CounterBefore(idx)
               /\ (IsAddedLine(line) /\ currentFile # <<>> /\ InHunk(idx)) =>
                     /\ currentLine \in MapGet(changedFiles', currentFile)
                     /\ \A m \in (HunkOf(idx) + 1)..(idx - 1) :
                           IsAddedLine(diffLines[m]) => CounterBefore(m) < currentLine
      ]_vars

\* the hunk of b in the diff of two files: @@ -3,1 +12,2 @@, a deleted line
\* and two added lines, the second about to be recorded as 13 after 12
C24_Witness ==
    /\ Parsing
    /\ diff = TwoFileDiff
    /\ idx = 10
    /\ IsDeletedLine(diffLines[8]) /\ IsAddedLine(diffLines[9]) /\ IsAddedLine(diffLines[10])
    /\ currentFile = <<"b">>
    /\ currentLine = 13
    /\ MapGet(changedFiles, <<"b">>) = {12}

\* C25 as claimed: a +++ header naming a file that is already registered
\* keeps the file's line set; an empty set is registered only for a file that
\* is absent, so no line number recorded earlier in the diff is ever lost.
C25_RepeatedHeaderKeepsLineSet ==
    [][ Parsing =>
           /\ \A k \in 1..Len(changedFiles) :
                 /\ MapHas(changedFiles', changedFiles[k].key)
                 /\ changedFiles[k].val \subseteq MapGet(changedFiles', changedFiles[k].key)
           /\ IsFileHeader(diffLines[idx]) =>
                 LET path == SubSeq(diffLines[idx], 7, Len(diffLines[idx]))
                 IN  /\ MapHas(changedFiles', path)
                     /\ ~MapHas(changedFiles, path) => MapGet(changedFiles', path) = {}
      ]_vars

\* +++ b/a, @@ -3,1 +12,2 @@, an added line, +++ b/a again: line 12 was
\* recorded for a and the second header has emptied the line set
C25_RepeatedHeaderLosesLines ==
    /\ diffLines = <<HeaderA, HunkHeader, AddedLine, HeaderA, <<>> >>
    /\ idx > Len(diffLines)
    /\ Keys = << <<"a">> >>
    /\ MapGet(changedFiles, <<"a">>) = {}

\* what the code does at every +++ header: the file named has an empty line
\* set afterwards, registered before or not, and keeps its place among the keys
C25_HeaderAlwaysEmptiesLineSet ==
    [][ (Parsing /\ IsFileHeader(diffLines[idx])) =>
           LET path == SubSeq(diffLines[idx], 7, Len(diffLines[idx]))
           IN  /\ MapHas(changedFiles', path)
               /\ MapGet(changedFiles', path) = {}
               /\ MapHas(changedFiles, path) => MapKeys(changedFiles') = MapKeys(changedFiles)
      ]_vars

\* a header  --- a/<path>  or  +++ b/<path>
IsHeaderOfFile(line) == IsFileHeader(line) \/ StartsWith(line, <<"-", "-", "-", " ">>)

\* the line the loop is at is the first content line of the diff, and no
\* hunk header comes before it: only headers of files do
AtFirstContentLineWithoutHunk ==
    /\ Parsing
    /\ ~IsHeaderOfFile(diffLines[idx]) /\ ~IsHunkHeader(diffLines[idx])
    /\ \A m \in 1..(idx - 1) : IsHeaderOfFile(diffLines[m])

\* C26: in a diff whose content lines come with no @@ header before them the
\* line counter is still at its initial value 0 when the first such content
\* line is reached.
C26_CounterStaysZeroWithoutHunk ==
    AtFirstContentLineWithoutHunk => currentLine = 0

\* +++ b/a followed at once by an added line: the header has been consumed,
\* the added line is about to be recorded with the number 0
C26_Witness ==
    /\ AtFirstContentLineWithoutHunk
    /\ idx = 2
    /\ diffLines[1] = HeaderA /\ diffLines[2] = AddedLine
    /\ currentFile = <<"a">>
    /\ currentLine = 0

\* and it is: the line set of a is {0}
C26_WitnessRecordedAsZero ==
    /\ idx = 3
    /\ diffLines[1] = HeaderA /\ diffLines[2] = AddedLine
    /\ MapGet(changedFiles, <<"a">>) = {0}
    /\ currentLine = 1

(***************************************************************************)
(* Properties of the setup wizard (specification SpecSetup).               *)
(***************************************************************************)
\* C27: over any sequence of setup runs a stored API credential is never
\* deleted or replaced by an empty value: a run in which the user declines
\* the update, or types a blank or whitespace-only key, leaves the stored
\* credential as it is (the blank case exits with code 1), and a credential is
\* written only if the trimmed input is not empty.
C27_StoredCredentialNeverCleared ==
    [][ /\ apiKey # "" => apiKey' # ""
        /\ (setupPc = "shouldUpdate" /\ ~IsYes(typed'))
              => (apiKey' = apiKey /\ setupPc' # "apiKey")
        /\ (setupPc = "apiKey" /\ typed'.body = "")
              => (apiKey' = apiKey /\ setupPc' = "exited" /\ setupExit' = 1)
        /\ apiKey' # apiKey
              => (setupPc = "apiKey" /\ typed'.body # "" /\ apiKey' = typed'.body)
      ]_vars

\* a credential is stored, the user asks to update it and types blanks only:
\* the wizard has exited with code 1 and the credential is still there
C27_Witness ==
    /\ setupPc = "exited" /\ setupExit = 1
    /\ typed = Typed(" ", "", " ")
    /\ apiKey = "sk-test"

\* the user declined the update in the second run, after the first run had
\* stored a new credential typed between blanks
C27_WitnessDeclined ==
    /\ setupRuns = 2
    /\ setupPc = "shouldChange"
    /\ typed = Typed("", "n", "")
    /\ apiKey = "sk-new"

(***************************************************************************)
(* More properties of the command line flow (specification Spec).          *)
(***************************************************************************)
\* the reply text is JSON whose security.hasSensitiveInfo is true
ReplySaysSensitive ==
    LET parsed    == JSONParse(ContentOrEmpty(reply))
        security  == GetProp(parsed.v, "security")
        sensitive == GetProp(security.v, "hasSensitiveInfo")
    IN  /\ reply.got /\ parsed.ok
        /\ ~security.throws /\ ~sensitive.throws
        /\ sensitive.v = JBool(TRUE)

\* parseAIResponse returned the result of its catch block
FellBack == result.ready /\ result.message.fromRaw

\* C28 as claimed: whenever the reply parses as JSON whose
\* security.hasSensitiveInfo is true, the result of the generator has
\* hasSensitiveInfo = true, whatever the other fields of the reply are, so that
\* under --commit such a reply never leads to a commit.
C28_SensitiveReplyAlwaysFlagged ==
    (cmd = "default" /\ result.ready /\ ReplySaysSensitive) =>
        /\ result.hasSensitiveInfo = JBool(TRUE)
        /\ options.commit => (pc = "done" /\ exitCode = 1 /\ ~CommitInvoked)

\* the reply {"security": {"hasSensitiveInfo": true}, "commit": {"message":
\* ...}} without the review field, under --commit: the security warning is
\* printed, the result says hasSensitiveInfo = false, the commit is made
C28_SensitiveReplyCommitted ==
    /\ cmd = "default" /\ options.commit
    /\ reply = Text(Stringify(ReplyObject(
                   <<JObj(<<"hasSensitiveInfo">>, <<JBool(TRUE)>>)>>, <<>>,
                   <<JObj(<<"message">>, <<JStr("feat: add line4")>>)>>)))
    /\ ReplySaysSensitive
    /\ Logged("security-warning") /\ Logged("parse-fallback")
    /\ result.hasSensitiveInfo = JBool(FALSE)
    /\ CommitInvoked /\ Logged("committed")
    /\ pc = "done" /\ exitCode = 0

\* what holds: the flag of the reply reaches the result unless a later
\* statement of the try block throws, and then the result says false
C28_SensitiveFlagLostOnlyInFallback ==
    (cmd = "default" /\ result.ready /\ ReplySaysSensitive) =>
        /\ Logged("security-warning")
        /\ IF FellBack THEN result.hasSensitiveInfo = JBool(FALSE)
                       ELSE result.hasSensitiveInfo = JBool(TRUE)
        /\ (options.commit /\ ~FellBack) => (pc = "done" /\ exitCode = 1 /\ ~CommitInvoked)

\* C29: in the default command, when no API credential is stored, the run
\* fails before anything is done to the repository: git add . is never
\* invoked, --stage or not, no diff is computed and no commit is made.
C29_NoCredentialNoGitCall ==
    (cmd = "default" /\ apiKey = "") =>
        /\ gitCalls = <<>>
        /\ apiCalls = 0
        /\ (pc = "done" /\ ~options.setup) =>
              (exitCode = 1 /\ err = MissingKeyMessage /\ Logged("setup-hint"))

\* cai --stage --commit without a stored credential has failed
C29_Witness ==
    /\ cmd = "default" /\ apiKey = ""
    /\ options.stage /\ options.commit /\ ~options.setup
    /\ pc = "done" /\ exitCode = 1
    /\ err = MissingKeyMessage
    /\ gitCalls = <<>>

\* C30: the default command with --setup starts the setup wizard and nothing
\* else: no staging, no diff, no API request and no commit in that
\* invocation, whatever the other flags are.
C30_SetupFlagOnlySpawnsWizard ==
    (cmd = "default" /\ options.setup) =>
        /\ gitCalls = <<>>
        /\ apiCalls = 0
        /\ ~result.ready
        /\ pc \in {"start", "done"}
        /\ pc = "done" => (setupSpawned /\ err = <<>> /\ log = <<>>)

\* cai --setup --stage --commit --force with a stored credential
C30_Witness ==
    /\ cmd = "default" /\ apiKey # ""
    /\ options.setup /\ options.stage /\ options.commit /\ options.force
    /\ pc = "done"
    /\ setupSpawned
    /\ gitCalls = <<>> /\ apiCalls = 0
=============================================================================
